---- MODULE Spec2Model ----
(***************************************************************************)
(* Model of the portfolio page's interaction engine (js/main.js):          *)
(*   - the timeline pager (setupTimelinePager / setActiveSlide),           *)
(*   - the shared timeline detail modal (open/closeTimelineJobModal,       *)
(*     timelinePlusGoXHandler, setTimelinePlusState),                      *)
(*   - the hero typewriter engine (startHeroTypewriter and its runners).   *)
(* Every handler runs to completion inside one event-loop turn, so each    *)
(* handler is one action; the typewriter's timed waits are the only        *)
(* suspension points and each timer firing is one action.                  *)
(***************************************************************************)
EXTENDS Integers, Sequences, FiniteSets, TLC

\* ---------------------------------------------------------------- bounds
\* Largest number of timeline entries (slides) in the content document.
MaxSlides == 3

\* Largest number of startHeroTypewriter calls in one behaviour.
MaxStarts == 2

\* Largest number of waitForDelay calls in one behaviour.
MaxWaits == 3

\* ------------------------------------------------------- element handles
\* DOM element references; all share one record shape so they compare.
Null == [kind |-> "null", index |-> 0]
Body == [kind |-> "body", index |-> 0]
Checkbox(s) == [kind |-> "checkbox", index |-> s]
Trigger(i) == [kind |-> "trigger", index |-> i]

\* ------------------------------------------------------------- variables
VARIABLES
    entries,        \* renderedTimelineEntries: index -> [description]
    modalMarkup,    \* #timeline-job-modal and its title/meta/description exist
    pagerReady,     \* setupTimelinePager and initTimelineModalBehavior have run
    activeIndex,    \* the pager closure's activeIndex
    slides,         \* index -> [isActive, ariaHidden, tabindex]
    triggers,       \* index -> [isActive, ariaSelected, tabindex, ariaCurrent]
    navDisabled,    \* previousButton.disabled / nextButton.disabled
    plus,           \* slide index -> state of the slide's "+" checkbox
    owner,          \* activeTimelineModalCheckbox
    modal,          \* [isOpen, ariaHidden, bodyLock, content]
    focus,          \* the element focused by a .focus() call or by
                    \* activating a "+" checkbox (Body when none was)
    last,           \* the handler that ran last: [op, arg, prevOwner, focusCall]
    runs,           \* one record per startHeroTypewriter call, in call order
    controllers,    \* typewriterControllers: target -> run id (0: no entry)
    headings,       \* target -> the heading element's attributes
    waits,          \* [aborted, list]: an AbortController's signal and
                    \* the promises waitForDelay returned, in call order
    calc,           \* the last call of a pure function: [fn, arg, result]
    tiles,          \* the page's .tile elements, in document order
    appearance,     \* localStorage's "appearance" item, the system colour
                    \* scheme and what appearance.js applied and bound
    checkbox        \* a tile's "+" control outside the timeline, with the
                    \* timers its handlers started

\* The timeline's state and the typewriter's state.
timelineVars == <<entries, modalMarkup, pagerReady, activeIndex, slides,
                  triggers, navDisabled, plus, owner, modal, focus, last>>
typewriterVars == <<runs, controllers, headings, waits, calc>>
pageVars == <<tiles, appearance, checkbox>>
timelineRest == <<entries, modalMarkup, pagerReady, activeIndex, slides,
                  triggers, navDisabled, plus, owner, modal, focus>>

vars == <<entries, modalMarkup, pagerReady, activeIndex, slides, triggers,
          navDisabled, plus, owner, modal, focus, last,
          runs, controllers, headings, waits, calc,
          tiles, appearance, checkbox>>

\* No pure function was called yet.
NoCall == [fn |-> "none", arg |-> <<>>, result |-> <<>>]

\* localStorage.getItem("appearance") when the item was never set.
NullItem == "null"

\* appearance.js after its module body ran on a first visit: nothing is
\* stored, nothing was applied, no listener is bound and no notification
\* was dispatched. notified keeps the mode of the last "appearance:changed"
\* event and what isDarkModeEnabled() returned to its listeners.
AppearanceAtLoad(stored, matches) ==
    [stored |-> stored, matches |-> matches, mode |-> "",
     navbarDark |-> FALSE,
     isSystemListenerBound |-> FALSE, areControlsBound |-> FALSE,
     activeToggle |-> "",
     notified |-> [mode |-> "", isDarkModeEnabled |-> FALSE]]

\* A tile's "+" control as the Tile component renders it, with the
\* elements of its tile the handler touches: unchecked, collapsed, no
\* animation set and no timer pending. animating, labelChecked, titleWhite,
\* overlayWhite and overlayHidden are the classes "animating" of the icon,
\* "checked" of the label, "text-white-animated" of the h5 and of the
\* overlay and "d-none" of the overlay; the other texts are
\* style.animation of the icon, the overlay, the overlay background, the
\* tile content and #send-icon; message is the value of #contact #message.
CheckboxAtRest(inContact) ==
    [inContact |-> inContact, complete |-> TRUE,
     checked |-> FALSE, ariaExpanded |-> "false",
     animating |-> FALSE, labelChecked |-> FALSE, titleWhite |-> FALSE,
     overlayWhite |-> FALSE, overlayHidden |-> TRUE,
     icon |-> "", overlay |-> "", background |-> "", content |-> "",
     sendIcon |-> "", timers |-> {}, message |-> ""]

\* ------------------------------------------------------------ strings
\* Characters a description is made of: a blank and a letter.
Descriptions == {<<>>, <<" ">>, <<"d">>}

RECURSIVE TrimStart(_)
TrimStart(s) ==
    IF s = <<>> THEN s
    ELSE IF Head(s) = " " THEN TrimStart(Tail(s)) ELSE s

RECURSIVE TrimEnd(_)
TrimEnd(s) ==
    IF s = <<>> THEN s
    ELSE IF s[Len(s)] = " " THEN TrimEnd(SubSeq(s, 1, Len(s) - 1)) ELSE s

\* String.prototype.trim
Trim(s) == TrimEnd(TrimStart(s))

\* `${entry.description ?? ""}`.trim().length > 0
HasDescription(entry) == Len(Trim(entry.description)) > 0

\* JavaScript's % : the result takes the sign of the dividend.
JsRem(a, b) == IF a >= 0 THEN a % b ELSE 0 - ((0 - a) % b)

BoolStr(b) == IF b THEN "true" ELSE "false"

\* ------------------------------------------------- timeline "+" control
\* The DOM state the modal functions read and write, passed as a record
\* d = [plus, owner, modal, focus, focusCall]; focusCall is the element a
\* handler called .focus() on (Null when it called none).

\* A "+" checkbox as the markup of renderIntro writes it.
PlusMarkup ==
    [checked |-> FALSE, ariaExpanded |-> "false", labelChecked |-> FALSE,
     containerOpen |-> FALSE, animating |-> FALSE, animation |-> ""]

\* setTimelinePlusState(checkbox, isOpen, animate)
SetTimelinePlusState(p, cb, isOpen, animate) ==
    [p EXCEPT ![cb] =
        [checked |-> isOpen,
         ariaExpanded |-> BoolStr(isOpen),
         labelChecked |-> isOpen,
         containerOpen |-> isOpen,
         animating |-> FALSE,
         animation |-> IF animate
                       THEN (IF isOpen THEN "make_x" ELSE "make_plus")
                       ELSE "none"]]

\* Mutant: the reset ignores animate = false and plays the closing animation.
ClearTimelinePlusInSlideAnimated(p, slide, animate) ==
    IF slide \in DOMAIN p THEN SetTimelinePlusState(p, slide, FALSE, TRUE)
    ELSE p

\* clearTimelinePlusInSlide(slide, animate): every checkbox inside the slide.
ClearTimelinePlusInSlide(p, slide, animate) ==
    IF slide \in DOMAIN p THEN SetTimelinePlusState(p, slide, FALSE, animate)
    ELSE p

\* ----------------------------------------------------------- the modal
ModalClosed(content) ==
    [isOpen |-> FALSE, ariaHidden |-> "true", bodyLock |-> FALSE,
     content |-> content]

EmptyContent == [title |-> <<>>, meta |-> <<>>, description |-> <<>>]

\* Mutant: close clears the ownership but leaves the owner control as it is.
CloseTimelineJobModalKeepsControl(d, hasModal, restoreFocus) ==
    IF ~hasModal THEN d
    ELSE [d EXCEPT !.owner = Null, !.modal = ModalClosed(d.modal.content)]

\* Mutant: close never hands the focus back to the owner.
CloseTimelineJobModalNoFocus(d, hasModal, restoreFocus) ==
    IF ~hasModal THEN d
    ELSE IF d.owner = Null
         THEN [d EXCEPT !.modal = ModalClosed(d.modal.content)]
         ELSE [d EXCEPT
                 !.plus = SetTimelinePlusState(d.plus, d.owner.index,
                                               FALSE, FALSE),
                 !.owner = Null,
                 !.modal = ModalClosed(d.modal.content)]

\* closeTimelineJobModal({restoreFocus})
CloseTimelineJobModal(d, hasModal, restoreFocus) ==
    IF ~hasModal THEN d
    ELSE IF d.owner = Null
         THEN [d EXCEPT !.modal = ModalClosed(d.modal.content)]
         ELSE [plus |-> SetTimelinePlusState(d.plus, d.owner.index, FALSE, FALSE),
               owner |-> Null,
               modal |-> ModalClosed(d.modal.content),
               focus |-> IF restoreFocus THEN d.owner ELSE d.focus,
               focusCall |-> IF restoreFocus THEN d.owner ELSE d.focusCall]

\* Mutant: the previous owner is not force-closed on a handover.
ReleasePreviousOwnerSkip(p, previous, triggerCheckbox) == p

\* The previous owner is force-closed before a different control takes over.
ReleasePreviousOwner(p, previous, triggerCheckbox) ==
    IF previous # Null /\ previous # triggerCheckbox
    THEN SetTimelinePlusState(p, previous.index, FALSE, FALSE)
    ELSE p

\* [subtitle, date].filter(Boolean).join(" · ")
JoinMeta(subtitle, date) ==
    IF subtitle = <<>> THEN date
    ELSE IF date = <<>> THEN subtitle
    ELSE subtitle \o <<" ", "·", " ">> \o date

\* title / meta / description written into the modal from the entry.
ModalContent(entry) ==
    [title |-> Trim(entry.title),
     meta |-> JoinMeta(Trim(entry.subtitle), Trim(entry.date)),
     description |-> IF Trim(entry.description) = <<>> THEN <<>>
                     ELSE <<Trim(entry.description)>>]

\* Mutant: the modal is opened without writing the entry into it.
OpenTimelineJobModalStaleContent(d, hasModal, entry, triggerCheckbox) ==
    IF ~hasModal THEN d
    ELSE [d EXCEPT
            !.plus = SetTimelinePlusState(
                        ReleasePreviousOwner(d.plus, d.owner, triggerCheckbox),
                        triggerCheckbox.index, TRUE, TRUE),
            !.owner = triggerCheckbox,
            !.modal = [isOpen |-> TRUE, ariaHidden |-> "false",
                       bodyLock |-> TRUE, content |-> d.modal.content]]

\* openTimelineJobModal(entry, triggerCheckbox)
OpenTimelineJobModal(d, hasModal, entry, triggerCheckbox) ==
    IF ~hasModal THEN d
    ELSE [d EXCEPT
            !.plus = SetTimelinePlusState(
                        ReleasePreviousOwner(d.plus, d.owner, triggerCheckbox),
                        triggerCheckbox.index, TRUE, TRUE),
            !.owner = triggerCheckbox,
            !.modal = [isOpen |-> TRUE, ariaHidden |-> "false",
                       bodyLock |-> TRUE, content |-> ModalContent(entry)]]

\* Mutant: unchecking resets the control but does not close the modal.
TimelinePlusGoXHandlerNoClose(d, hasModal, ents, s) ==
    IF s \notin DOMAIN ents \/ ~HasDescription(ents[s]) \/ ~d.plus[s].checked
    THEN [d EXCEPT !.plus = SetTimelinePlusState(d.plus, s, FALSE,
                                                 s \in DOMAIN ents
                                                 /\ HasDescription(ents[s]))]
    ELSE OpenTimelineJobModal(d, hasModal, ents[s], Checkbox(s))

\* Mutant: the description is not examined, a blank entry opens the modal.
TimelinePlusGoXHandlerNoBlankCheck(d, hasModal, ents, s) ==
    IF s \notin DOMAIN ents
    THEN [d EXCEPT !.plus = SetTimelinePlusState(d.plus, s, FALSE, FALSE)]
    ELSE IF ~d.plus[s].checked
    THEN LET c == CloseTimelineJobModal(d, hasModal, FALSE)
         IN  [c EXCEPT !.plus = SetTimelinePlusState(c.plus, s, FALSE, TRUE)]
    ELSE OpenTimelineJobModal(d, hasModal, ents[s], Checkbox(s))

\* Mutant: unchecking snaps the control closed without the animation.
TimelinePlusGoXHandlerNoAnimation(d, hasModal, ents, s) ==
    IF s \notin DOMAIN ents
    THEN [d EXCEPT !.plus = SetTimelinePlusState(d.plus, s, FALSE, FALSE)]
    ELSE IF ~HasDescription(ents[s])
    THEN [d EXCEPT !.plus = SetTimelinePlusState(d.plus, s, FALSE, FALSE)]
    ELSE IF ~d.plus[s].checked
    THEN LET c == CloseTimelineJobModal(d, hasModal, FALSE)
         IN  [c EXCEPT !.plus = SetTimelinePlusState(c.plus, s, FALSE, FALSE)]
    ELSE OpenTimelineJobModal(d, hasModal, ents[s], Checkbox(s))

\* timelinePlusGoXHandler(event), event.target = the checkbox of slide s.
\* The slide's data-index is s; renderedTimelineEntries[s] may be missing.
TimelinePlusGoXHandler(d, hasModal, ents, s) ==
    IF s \notin DOMAIN ents
    THEN [d EXCEPT !.plus = SetTimelinePlusState(d.plus, s, FALSE, FALSE)]
    ELSE IF ~HasDescription(ents[s])
    THEN [d EXCEPT !.plus = SetTimelinePlusState(d.plus, s, FALSE, FALSE)]
    ELSE IF ~d.plus[s].checked
    THEN LET c == CloseTimelineJobModal(d, hasModal, FALSE)
         IN  [c EXCEPT !.plus = SetTimelinePlusState(c.plus, s, FALSE, TRUE)]
    ELSE OpenTimelineJobModal(d, hasModal, ents[s], Checkbox(s))

\* ----------------------------------------------------------- the pager
NumSlides == Cardinality(DOMAIN entries)

\* Mutant: the index is clamped into range instead of wrapped.
NormalizeIndexClamp(index, n) ==
    IF index < 0 THEN 0 ELSE IF index >= n THEN n - 1 ELSE index

\* Mutant: the remainder is taken without adding the slide count first.
NormalizeIndexNoWrap(index, n) == JsRem(index, n)

\* activeIndex = (index + slides.length) % slides.length
NormalizeIndex(index, n) == JsRem(index + n, n)

\* slides.findIndex(slide => slide.classList.contains("is-active"))
FindActiveSlide(sl) ==
    IF \E i \in DOMAIN sl : sl[i].isActive
    THEN CHOOSE i \in DOMAIN sl :
            sl[i].isActive /\ \A j \in DOMAIN sl : sl[j].isActive => i <= j
    ELSE 0 - 1

\* Math.max(0, ...)
Max(a, b) == IF a >= b THEN a ELSE b

\* Mutant: an inactive slide stays in the tab order.
SlideStateKeepsTabindex(isActive) ==
    [isActive |-> isActive, ariaHidden |-> BoolStr(~isActive), tabindex |-> "0"]

\* The attributes setActiveSlide writes on one slide.
SlideState(isActive) ==
    [isActive |-> isActive,
     ariaHidden |-> BoolStr(~isActive),
     tabindex |-> IF isActive THEN "0" ELSE "-1"]

\* The attributes setActiveSlide writes on one trigger.
TriggerState(isActive) ==
    [isActive |-> isActive,
     ariaSelected |-> BoolStr(isActive),
     tabindex |-> IF isActive THEN "0" ELSE "-1",
     ariaCurrent |-> BoolStr(isActive)]

\* The slides.forEach of setActiveSlide, on the "+" controls: every slide
\* other than the active one has its controls reset without animation.
ClearInactiveSlides(p, a) ==
    [s \in DOMAIN p |->
        IF s # a THEN ClearTimelinePlusInSlide(p, s, FALSE)[s] ELSE p[s]]

\* Mutant: the slide switch closes the modal with the default restoreFocus.
SwitchModalAndFocusRestoring(d, hasModal, a, trigs, shouldFocusTrigger) ==
    LET c == IF d.owner # Null /\ d.owner.index # a
             THEN CloseTimelineJobModal(d, hasModal, TRUE)
             ELSE d
    IN  IF shouldFocusTrigger /\ a \in DOMAIN trigs
        THEN [c EXCEPT !.focus = Trigger(a), !.focusCall = Trigger(a)]
        ELSE c

\* Mutant: every slide switch closes an open modal.
SwitchModalAndFocusClosing(d, hasModal, a, trigs, shouldFocusTrigger) ==
    LET c == IF d.owner # Null
             THEN CloseTimelineJobModal(d, hasModal, FALSE)
             ELSE d
    IN  IF shouldFocusTrigger /\ a \in DOMAIN trigs
        THEN [c EXCEPT !.focus = Trigger(a), !.focusCall = Trigger(a)]
        ELSE c

\* The tail of setActiveSlide: close the modal when its owner is not inside
\* the active slide (slides[activeIndex] may be undefined), then focus.
SwitchModalAndFocus(d, hasModal, a, trigs, shouldFocusTrigger) ==
    LET c == IF d.owner # Null /\ d.owner.index # a
             THEN CloseTimelineJobModal(d, hasModal, FALSE)
             ELSE d
    IN  IF shouldFocusTrigger /\ a \in DOMAIN trigs
        THEN [c EXCEPT !.focus = Trigger(a), !.focusCall = Trigger(a)]
        ELSE c

\* setActiveSlide(index, shouldFocusTrigger, scrollBehavior)
SetActiveSlide(op, index, shouldFocusTrigger, trigs, focusBefore) ==
    \E a \in {NormalizeIndex(index, NumSlides)} :
    \E d \in {SwitchModalAndFocus(
                [plus |-> ClearInactiveSlides(plus, a), owner |-> owner,
                 modal |-> modal, focus |-> focusBefore, focusCall |-> Null],
                modalMarkup, a, trigs, shouldFocusTrigger)} :
        /\ activeIndex' = a
        /\ slides' = [s \in DOMAIN slides |-> SlideState(s = a)]
        /\ triggers' = [i \in DOMAIN trigs |-> TriggerState(i = a)]
        /\ navDisabled' = (NumSlides <= 1)
        /\ plus' = d.plus
        /\ owner' = d.owner
        /\ modal' = d.modal
        /\ focus' = d.focus
        /\ last' = [op |-> op, arg |-> index, prevOwner |-> owner,
                    focusCall |-> d.focusCall]

\* ---------------------------------------------------------------- Init
\* The headings the typewriter registry is used with.
Targets == {"intro", "greeting"}

\* A heading before any typewriter was started on it.
HeadingMarkup ==
    [ariaLabel |-> <<>>, textElement |-> 0, isTarget |-> FALSE,
     isStatic |-> FALSE]

\* The timeline entries of the content document: fixed title, subtitle and
\* date per position, any description.
Digit(i) == <<"0", "1", "2", "3", "4", "5", "6", "7", "8", "9">>[i + 1]

Entry(i, description) ==
    [title |-> <<"T", Digit(i)>>, subtitle |-> <<"S", Digit(i)>>,
     date |-> <<"D", Digit(i)>>,
     description |-> description]

\* The page right after renderIntro wrote the timeline markup: slide 0 is
\* marked active, a "+" checkbox exists in the slides that have details.
Init ==
    /\ \E n \in 1..MaxSlides :
          entries \in { [i \in 0..(n - 1) |-> Entry(i, f[i])] :
                            f \in [0..(n - 1) -> Descriptions] }
    /\ modalMarkup \in BOOLEAN
    /\ pagerReady = FALSE
    /\ activeIndex = 0
    /\ slides = [i \in DOMAIN entries |-> SlideState(i = 0)]
    /\ triggers = [i \in {} |-> TriggerState(FALSE)]
    /\ navDisabled = FALSE
    /\ plus = [s \in {i \in DOMAIN entries : HasDescription(entries[i])}
                  |-> PlusMarkup]
    /\ owner = Null
    /\ modal = ModalClosed(EmptyContent)
    /\ focus = Body
    /\ last = [op |-> "markup", arg |-> 0, prevOwner |-> Null,
               focusCall |-> Null]
    /\ runs = <<>>
    /\ controllers = [t \in Targets |-> 0]
    /\ headings = [t \in Targets |-> HeadingMarkup]
    /\ waits = [aborted |-> FALSE, list |-> <<>>]
    /\ calc = NoCall
    /\ tiles = <<>>
    /\ appearance = AppearanceAtLoad(NullItem, FALSE)
    /\ checkbox = CheckboxAtRest(FALSE)

\* ------------------------------------------------------------- actions
\* setupTimelinePager() followed by initTimelineModalBehavior().
SetupTimelinePager ==
    /\ ~pagerReady
    /\ pagerReady' = TRUE
    /\ SetActiveSlide("setup", Max(0, FindActiveSlide(slides)), FALSE,
                      [i \in DOMAIN slides |-> TriggerState(FALSE)], focus)
    /\ UNCHANGED <<entries, modalMarkup>>
    /\ UNCHANGED typewriterVars /\ UNCHANGED pageVars

\* previousButton.onclick (a disabled button dispatches no click).
ClickPrevious ==
    /\ pagerReady /\ ~navDisabled
    /\ SetActiveSlide("prev", activeIndex - 1, FALSE, triggers, focus)
    /\ UNCHANGED <<entries, modalMarkup, pagerReady>>
    /\ UNCHANGED typewriterVars /\ UNCHANGED pageVars

\* nextButton.onclick
ClickNext ==
    /\ pagerReady /\ ~navDisabled
    /\ SetActiveSlide("next", activeIndex + 1, FALSE, triggers, focus)
    /\ UNCHANGED <<entries, modalMarkup, pagerReady>>
    /\ UNCHANGED typewriterVars /\ UNCHANGED pageVars

\* trigger "click" listener
ClickTrigger(i) ==
    /\ pagerReady
    /\ SetActiveSlide("trigger", i, TRUE, triggers, focus)
    /\ UNCHANGED <<entries, modalMarkup, pagerReady>>
    /\ UNCHANGED typewriterVars /\ UNCHANGED pageVars

\* Mutant: ArrowLeft switches the slide but does not focus its trigger.
KeyArrowLeftNoFocus ==
    /\ pagerReady
    /\ SetActiveSlide("ArrowLeft", activeIndex - 1, FALSE, triggers, focus)
    /\ UNCHANGED <<entries, modalMarkup, pagerReady>>
    /\ UNCHANGED typewriterVars /\ UNCHANGED pageVars

\* timelineElement.onkeydown
KeyArrowLeft ==
    /\ pagerReady
    /\ SetActiveSlide("ArrowLeft", activeIndex - 1, TRUE, triggers, focus)
    /\ UNCHANGED <<entries, modalMarkup, pagerReady>>
    /\ UNCHANGED typewriterVars /\ UNCHANGED pageVars

KeyArrowRight ==
    /\ pagerReady
    /\ SetActiveSlide("ArrowRight", activeIndex + 1, TRUE, triggers, focus)
    /\ UNCHANGED <<entries, modalMarkup, pagerReady>>
    /\ UNCHANGED typewriterVars /\ UNCHANGED pageVars

\* Keys that timelineElement.onkeydown receives and does not handle.
OtherKeys == {"Home"}

\* timelineElement.onkeydown with a key that is neither arrow: no branch
\* of the handler runs.
KeyOther(key) ==
    /\ pagerReady
    /\ key \notin {"ArrowLeft", "ArrowRight"}
    /\ last' = [op |-> key, arg |-> 0, prevOwner |-> owner,
                focusCall |-> Null]
    /\ UNCHANGED <<entries, modalMarkup, pagerReady, activeIndex, slides,
                   triggers, navDisabled, plus, owner, modal, focus>>
    /\ UNCHANGED typewriterVars /\ UNCHANGED pageVars

\* The user toggles the "+" checkbox of slide s: the browser flips
\* checked (and may focus the checkbox), then the delegated "change"
\* listener calls timelinePlusGoXHandler.
TogglePlus(s) ==
    /\ pagerReady
    /\ s \in DOMAIN plus
    /\ \E f \in {focus, Checkbox(s)} :
          \E d \in {TimelinePlusGoXHandler(
                      [plus |-> [plus EXCEPT ![s].checked = ~plus[s].checked],
                       owner |-> owner, modal |-> modal, focus |-> f,
                       focusCall |-> Null],
                      modalMarkup, entries, s)} :
              /\ plus' = d.plus
              /\ owner' = d.owner
              /\ modal' = d.modal
              /\ focus' = d.focus
              /\ last' = [op |-> "toggle", arg |-> s, prevOwner |-> owner,
                          focusCall |-> d.focusCall]
    /\ UNCHANGED <<entries, modalMarkup, pagerReady, activeIndex, slides,
                   triggers, navDisabled>>
    /\ UNCHANGED typewriterVars /\ UNCHANGED pageVars

\* A global close trigger: closeTimelineJobModal({ restoreFocus: true }).
CloseTrigger(op, focusBefore) ==
    \E d \in {CloseTimelineJobModal(
                [plus |-> plus, owner |-> owner, modal |-> modal,
                 focus |-> focusBefore, focusCall |-> Null],
                modalMarkup, TRUE)} :
        /\ plus' = d.plus
        /\ owner' = d.owner
        /\ modal' = d.modal
        /\ focus' = d.focus
        /\ last' = [op |-> op, arg |-> 0, prevOwner |-> owner,
                    focusCall |-> d.focusCall]
        /\ UNCHANGED <<entries, modalMarkup, pagerReady, activeIndex, slides,
                       triggers, navDisabled>>
        /\ UNCHANGED typewriterVars /\ UNCHANGED pageVars

\* document "keydown" listener, event.key === "Escape"; it is registered
\* by initTimelineModalBehavior only when the modal exists.
KeyEscape ==
    /\ pagerReady /\ modalMarkup
    /\ CloseTrigger("Escape", focus)

\* modal "click" listener on a [data-timeline-modal-close] element.
ClickModalClose ==
    /\ pagerReady /\ modalMarkup
    /\ CloseTrigger("closeClick", focus)

Next ==
    \/ SetupTimelinePager
    \/ ClickPrevious
    \/ ClickNext
    \/ \E i \in DOMAIN triggers : ClickTrigger(i)
    \/ KeyArrowLeft
    \/ KeyArrowRight
    \/ \E key \in OtherKeys : KeyOther(key)
    \/ \E s \in DOMAIN plus : TogglePlus(s)
    \/ KeyEscape
    \/ ClickModalClose

Spec == Init /\ [][Next]_vars

\* ------------------------------------------------ setActiveSlide alone
\* setActiveSlide as a function of its index argument: it is called with
\* any integer of IndexInputs once the pager is set up.
IndexInputs == (0 - (2 * MaxSlides + 1))..(2 * MaxSlides + 1)

CallSetActiveSlide(i, shouldFocusTrigger) ==
    /\ pagerReady
    /\ SetActiveSlide("call", i, shouldFocusTrigger, triggers, focus)
    /\ UNCHANGED <<entries, modalMarkup, pagerReady>>
    /\ UNCHANGED typewriterVars /\ UNCHANGED pageVars

NextPager ==
    \/ SetupTimelinePager
    \/ \E i \in IndexInputs, b \in BOOLEAN : CallSetActiveSlide(i, b)

SpecPager == Init /\ [][NextPager]_vars

\* ------------------------------------------------- typewriter: rendering
\* A string is a sequence of one-character strings.
Slice(s, n) == SubSeq(s, 1, n)

\* Stand-in for HERO_FALLBACK_ROTATING_LINES (twenty sentences in the
\* source): two short non-blank lines.
FallbackLines == << <<"o", "k">>, <<"g", "o">> >>

\* The line lists startHeroTypewriter is called with: none (the fallback,
\* a question with its answer in pairs mode) and a single line (a question
\* without answer in pairs mode).
LineInputs == { <<>>, << <<"h", "i">> >> }

\* buildTypewriterPairs(lines), from the 1-based position k on.
RECURSIVE BuildPairsFrom(_, _)
BuildPairsFrom(lines, k) ==
    IF k > Len(lines) THEN <<>>
    ELSE LET question == Trim(lines[k])
             answer == IF k + 1 <= Len(lines) THEN Trim(lines[k + 1]) ELSE <<>>
         IN  (IF question = <<>> /\ answer = <<>> THEN <<>>
              ELSE << [question |-> question, answer |-> answer] >>)
             \o BuildPairsFrom(lines, k + 2)

\* Mutant: a pair is kept only when both its question and answer are set.
BuildTypewriterPairsComplete(lines) ==
    SelectSeq(BuildPairsFrom(lines, 1),
              LAMBDA p : p.question # <<>> /\ p.answer # <<>>)

BuildTypewriterPairs(lines) == BuildPairsFrom(lines, 1)

\* innerHTML as the sequence of its text spans; cursor tells whether the
\* cursor markup follows the span's text.
\* highlightHeroLine(line) with no cursor
HighlightHeroLine(line) == << [cls |-> "line", text |-> line, cursor |-> FALSE] >>

\* renderTypewriterLine(line)
RenderTypewriterLine(line) == << [cls |-> "line", text |-> line, cursor |-> TRUE] >>

\* renderTypewriterPair(question, answer, highlightPattern, cursorTarget)
RenderTypewriterPair(question, answer, cursorTarget) ==
    (IF question # <<>>
     THEN << [cls |-> "question", text |-> question,
              cursor |-> (cursorTarget = "question")] >>
     ELSE <<>>)
    \o
    (IF answer # <<>>
     THEN << [cls |-> "answer", text |-> answer,
              cursor |-> (cursorTarget = "answer")] >>
     ELSE <<>>)

\* --------------------------------------------------- typewriter: runners
\* A run r = [target, hasController, aborted, pc, given, lines, renderAsPairs,
\* index, count, markup, timer, listener, error, logged, propagated]: pc is
\* the wait the runner is suspended in, markup the innerHTML of the text
\* element mounted for this run, timer and listener whether a timeout and
\* an abort listener of the run are pending, error the value its promise
\* rejected with, logged the console.error calls of its handler, propagated
\* whether the rejection left the session unhandled.

\* runHeroPairTypewriter falls back to runHeroTypewriter without pairs.
PairMode(r) == r.renderAsPairs /\ BuildTypewriterPairs(r.lines) # <<>>

\* lines[lineIndex % lines.length]
LineOf(r) == r.lines[(r.index % Len(r.lines)) + 1]

\* pairs[pairIndex % pairs.length]
PairOf(r) ==
    LET pairs == BuildTypewriterPairs(r.lines)
    IN  pairs[(r.index % Len(pairs)) + 1]

Waiting(r, pc) == [r EXCEPT !.pc = pc, !.count = 0]

\* runHeroTypewriter: top of the while loop, first typing step.
BeginLine(r) ==
    IF Len(LineOf(r)) >= 1
    THEN [r EXCEPT !.pc = "typing", !.count = 1,
                   !.markup = RenderTypewriterLine(Slice(LineOf(r), 1))]
    ELSE Waiting(r, "hold")

\* Mutant: the erase loop starts at the full line instead of one shorter.
StepLineEraseFromFull(r) ==
    CASE r.pc = "typing" ->
            IF r.count + 1 <= Len(LineOf(r))
            THEN [r EXCEPT !.count = r.count + 1,
                           !.markup = RenderTypewriterLine(
                                         Slice(LineOf(r), r.count + 1))]
            ELSE Waiting(r, "hold")
      [] r.pc = "hold" ->
            [r EXCEPT !.pc = "erasing", !.count = Len(LineOf(r)),
                      !.markup = RenderTypewriterLine(LineOf(r))]
      [] r.pc = "erasing" ->
            IF r.count - 1 >= 0
            THEN [r EXCEPT !.count = r.count - 1,
                           !.markup = RenderTypewriterLine(
                                         Slice(LineOf(r), r.count - 1))]
            ELSE Waiting(r, "between")
      [] r.pc = "between" ->
            BeginLine([r EXCEPT !.index = (r.index + 1) % Len(r.lines)])
      [] OTHER -> r

\* runHeroTypewriter: the wait that ended, and what runs up to the next.
StepLine(r) ==
    CASE r.pc = "typing" ->
            IF r.count + 1 <= Len(LineOf(r))
            THEN [r EXCEPT !.count = r.count + 1,
                           !.markup = RenderTypewriterLine(
                                         Slice(LineOf(r), r.count + 1))]
            ELSE Waiting(r, "hold")
      [] r.pc = "hold" ->
            IF Len(LineOf(r)) - 1 >= 0
            THEN [r EXCEPT !.pc = "erasing", !.count = Len(LineOf(r)) - 1,
                           !.markup = RenderTypewriterLine(
                                         Slice(LineOf(r), Len(LineOf(r)) - 1))]
            ELSE Waiting(r, "between")
      [] r.pc = "erasing" ->
            IF r.count - 1 >= 0
            THEN [r EXCEPT !.count = r.count - 1,
                           !.markup = RenderTypewriterLine(
                                         Slice(LineOf(r), r.count - 1))]
            ELSE Waiting(r, "between")
      [] r.pc = "between" ->
            BeginLine([r EXCEPT !.index = (r.index + 1) % Len(r.lines)])
      [] OTHER -> r

\* runHeroPairTypewriter: the erase-question loop.
BeginEraseQuestion(r) ==
    IF Len(PairOf(r).question) - 1 >= 0
    THEN [r EXCEPT !.pc = "erasingQ", !.count = Len(PairOf(r).question) - 1,
                   !.markup = RenderTypewriterPair(
                                 Slice(PairOf(r).question,
                                       Len(PairOf(r).question) - 1),
                                 <<>>, "question")]
    ELSE Waiting(r, "between")

\* runHeroPairTypewriter: the type-answer loop.
BeginAnswer(r) ==
    IF Len(PairOf(r).answer) >= 1
    THEN [r EXCEPT !.pc = "typingA", !.count = 1,
                   !.markup = RenderTypewriterPair(
                                 PairOf(r).question,
                                 Slice(PairOf(r).answer, 1), "answer")]
    ELSE Waiting(r, "hold")

\* Mutant: the answer-start delay is taken whenever a question was typed.
AfterQuestionAlwaysDelay(r) ==
    IF Len(PairOf(r).question) > 0
    THEN Waiting(r, "answerDelay")
    ELSE BeginAnswer(r)

\* runHeroPairTypewriter: after the type-question loop.
AfterQuestion(r) ==
    IF Len(PairOf(r).question) > 0 /\ Len(PairOf(r).answer) > 0
    THEN Waiting(r, "answerDelay")
    ELSE BeginAnswer(r)

\* runHeroPairTypewriter: top of the while loop, first typing step.
BeginPair(r) ==
    IF Len(PairOf(r).question) >= 1
    THEN [r EXCEPT !.pc = "typingQ", !.count = 1,
                   !.markup = RenderTypewriterPair(
                                 Slice(PairOf(r).question, 1), <<>>, "question")]
    ELSE AfterQuestion(r)

\* runHeroPairTypewriter: the wait that ended, and what runs up to the next.
StepPair(r) ==
    CASE r.pc = "typingQ" ->
            IF r.count + 1 <= Len(PairOf(r).question)
            THEN [r EXCEPT !.count = r.count + 1,
                           !.markup = RenderTypewriterPair(
                                         Slice(PairOf(r).question, r.count + 1),
                                         <<>>, "question")]
            ELSE AfterQuestion(r)
      [] r.pc = "answerDelay" -> BeginAnswer(r)
      [] r.pc = "typingA" ->
            IF r.count + 1 <= Len(PairOf(r).answer)
            THEN [r EXCEPT !.count = r.count + 1,
                           !.markup = RenderTypewriterPair(
                                         PairOf(r).question,
                                         Slice(PairOf(r).answer, r.count + 1),
                                         "answer")]
            ELSE Waiting(r, "hold")
      [] r.pc = "hold" ->
            IF Len(PairOf(r).answer) - 1 >= 0
            THEN [r EXCEPT !.pc = "erasingA",
                           !.count = Len(PairOf(r).answer) - 1,
                           !.markup = RenderTypewriterPair(
                                         PairOf(r).question,
                                         Slice(PairOf(r).answer,
                                               Len(PairOf(r).answer) - 1),
                                         "answer")]
            ELSE BeginEraseQuestion(r)
      [] r.pc = "erasingA" ->
            IF r.count - 1 >= 0
            THEN [r EXCEPT !.count = r.count - 1,
                           !.markup = RenderTypewriterPair(
                                         PairOf(r).question,
                                         Slice(PairOf(r).answer, r.count - 1),
                                         "answer")]
            ELSE BeginEraseQuestion(r)
      [] r.pc = "erasingQ" ->
            IF r.count - 1 >= 0
            THEN [r EXCEPT !.count = r.count - 1,
                           !.markup = RenderTypewriterPair(
                                         Slice(PairOf(r).question, r.count - 1),
                                         <<>>, "question")]
            ELSE Waiting(r, "between")
      [] r.pc = "between" ->
            BeginPair([r EXCEPT !.index =
                          (r.index + 1) % Len(BuildTypewriterPairs(r.lines))])
      [] OTHER -> r

\* The message of the error a cancelled wait rejects with.
AbortedMessage == "Hero typewriter aborted"

\* No value was thrown.
NoError == [isError |-> FALSE, message |-> ""]

\* Mutant: the handler logs every rejection, the cancellation included.
CatchRunnerErrorLogsAll(r, error) ==
    [r EXCEPT !.error = error, !.logged = @ + 1, !.propagated = FALSE]

\* runner(...).catch(error => ...): the rejection of the runner's promise is
\* handled; a cancellation returns, anything else goes to console.error.
CatchRunnerError(r, error) ==
    IF error.isError /\ error.message = AbortedMessage
    THEN [r EXCEPT !.error = error, !.propagated = FALSE]
    ELSE [r EXCEPT !.error = error, !.logged = @ + 1, !.propagated = FALSE]

\* The runner's promise rejects with error: the runner is over, and the
\* wait it was suspended in holds neither timer nor abort listener.
RunnerRejects(r, error) ==
    CatchRunnerError([r EXCEPT !.pc = "done", !.count = 0, !.timer = FALSE,
                               !.listener = FALSE, !.propagated = TRUE],
                     error)

\* The timers and listeners of a run suspended in r.pc: the start timer has
\* no abort listener, a waitForDelay(d, signal) has a timer and a listener.
Suspended(r) ==
    [r EXCEPT !.timer = r.pc \notin {"done", "static"},
              !.listener = r.pc \notin {"start", "done", "static"}]

\* Mutant: the start timer's callback runs the runner without looking at
\* the signal.
StartRunnerUnchecked(r) ==
    IF PairMode(r) THEN BeginPair(r) ELSE BeginLine(r)

\* The callback of the start timer: nothing runs for an aborted signal.
StartRunner(r) ==
    IF r.aborted THEN [r EXCEPT !.pc = "done"]
    ELSE IF PairMode(r) THEN BeginPair(r) ELSE BeginLine(r)

\* A pending timer of run r fires and the runner goes on to its next wait.
StepRun(r) ==
    Suspended(IF r.pc = "start" THEN StartRunner(r)
              ELSE IF PairMode(r) THEN StepPair(r) ELSE StepLine(r))

\* Mutant: abort() marks the signal and tells no pending wait.
AbortRunSilent(r) ==
    IF ~r.hasController \/ r.aborted THEN r
    ELSE [r EXCEPT !.aborted = TRUE]

\* controller.abort() on the run's signal: a pending waitForDelay clears its
\* timer and rejects, which ends the runner; the start timer is not cleared.
AbortRun(r) ==
    IF ~r.hasController \/ r.aborted THEN r
    ELSE IF r.listener
    THEN RunnerRejects([r EXCEPT !.aborted = TRUE],
                       [isError |-> TRUE, message |-> AbortedMessage])
    ELSE [r EXCEPT !.aborted = TRUE,
                   !.pc = IF r.pc = "start" THEN "start" ELSE "done",
                   !.count = IF r.pc = "start" THEN r.count ELSE 0]

\* Mutant: the existing controller is not aborted on a restart.
AbortExistingSkip(rs, id) == rs

\* existingController = typewriterControllers.get(el); existingController?.abort()
AbortExisting(rs, id) ==
    IF id = 0 THEN rs ELSE [rs EXCEPT ![id] = AbortRun(rs[id])]

\* Mutant: the new controller is not stored in the registry.
RegisterControllerSkip(ctrl, t, id) == ctrl

\* typewriterControllers.set(headingElement, controller)
RegisterController(ctrl, t, id) == [ctrl EXCEPT ![t] = id]

\* Mutant: the reduced-motion branch leaves the registry entry in place.
UnregisterControllerSkip(ctrl, t) == ctrl

\* typewriterControllers.delete(headingElement)
UnregisterController(ctrl, t) == [ctrl EXCEPT ![t] = 0]

\* firstPair?.question || firstPair?.answer || resolvedLines[0]
FirstLine(resolved, renderAsPairs) ==
    LET pairs == BuildTypewriterPairs(resolved)
    IN  IF ~renderAsPairs THEN resolved[1]
        ELSE IF pairs # <<>> /\ pairs[1].question # <<>> THEN pairs[1].question
        ELSE IF pairs # <<>> /\ pairs[1].answer # <<>> THEN pairs[1].answer
        ELSE resolved[1]

\* The static rendering of the reduced-motion branch.
StaticMarkup(resolved, renderAsPairs) ==
    LET pairs == BuildTypewriterPairs(resolved)
    IN  IF renderAsPairs
        THEN RenderTypewriterPair(
                IF pairs # <<>> THEN pairs[1].question
                ELSE FirstLine(resolved, renderAsPairs),
                IF pairs # <<>> THEN pairs[1].answer ELSE <<>>,
                "none")
        ELSE HighlightHeroLine(FirstLine(resolved, renderAsPairs))

\* The body of startHeroTypewriter(headingElement, lines, {renderAsPairs})
\* with matchMedia("(prefers-reduced-motion: reduce)").matches =
\* reducedMotion; given keeps the lines argument of the call.
StartHero(t, lines, renderAsPairs, reducedMotion) ==
    /\ Len(runs) < MaxStarts
    /\ \E resolved \in {IF Len(lines) > 0 THEN lines ELSE FallbackLines} :
       \E id \in {Len(runs) + 1} :
          /\ runs' = Append(
                AbortExisting(runs, controllers[t]),
                [target |-> t,
                 hasController |-> ~reducedMotion,
                 aborted |-> FALSE,
                 pc |-> IF reducedMotion THEN "static" ELSE "start",
                 given |-> lines,
                 lines |-> resolved,
                 renderAsPairs |-> renderAsPairs,
                 index |-> 0,
                 count |-> 0,
                 markup |-> IF reducedMotion
                            THEN StaticMarkup(resolved, renderAsPairs)
                            ELSE <<>>,
                 timer |-> ~reducedMotion,
                 listener |-> FALSE,
                 error |-> NoError,
                 logged |-> 0,
                 propagated |-> FALSE])
          /\ controllers' = IF reducedMotion
                            THEN UnregisterController(controllers, t)
                            ELSE RegisterController(controllers, t, id)
          /\ headings' = [headings EXCEPT ![t] =
                            [ariaLabel |-> FirstLine(resolved, renderAsPairs),
                             textElement |-> id,
                             isTarget |-> TRUE,
                             isStatic |-> reducedMotion]]

\* A call of startHeroTypewriter.
StartHeroTypewriter(t, lines, renderAsPairs, reducedMotion) ==
    /\ StartHero(t, lines, renderAsPairs, reducedMotion)
    /\ UNCHANGED <<waits, calc>>
    /\ UNCHANGED timelineVars /\ UNCHANGED pageVars

\* Mutant: every step copies the line being animated into aria-label.
TimerFiresSyncingLabel(id) ==
    /\ id \in 1..Len(runs)
    /\ runs[id].pc \notin {"done", "static"}
    /\ runs[id].pc = "start" \/ ~runs[id].aborted
    /\ runs' = [runs EXCEPT ![id] = StepRun(runs[id])]
    /\ headings' = [headings EXCEPT ![runs[id].target].ariaLabel =
                      IF runs'[id].aborted THEN @
                      ELSE IF PairMode(runs'[id])
                      THEN PairOf(runs'[id]).question
                      ELSE LineOf(runs'[id])]
    /\ UNCHANGED <<controllers, waits, calc>>
    /\ UNCHANGED timelineVars /\ UNCHANGED pageVars

\* A timer of run id fires: the start timer, or the timer of the wait the
\* runner is suspended in (cleared once the signal is aborted).
TimerFires(id) ==
    /\ id \in 1..Len(runs)
    /\ runs[id].pc \notin {"done", "static"}
    /\ runs[id].pc = "start" \/ ~runs[id].aborted
    /\ runs' = [runs EXCEPT ![id] = StepRun(runs[id])]
    /\ UNCHANGED <<controllers, headings, waits, calc>>
    /\ UNCHANGED timelineVars /\ UNCHANGED pageVars

\* renderGreeting: the greeting heading is re-rendered as plain text.
RenderGreeting ==
    /\ runs' = AbortExisting(runs, controllers["greeting"])
    /\ controllers' = [controllers EXCEPT !["greeting"] = 0]
    /\ headings' = [headings EXCEPT !["greeting"].textElement = 0,
                                    !["greeting"].isTarget = FALSE,
                                    !["greeting"].isStatic = FALSE]
    /\ UNCHANGED <<waits, calc>>
    /\ UNCHANGED timelineVars /\ UNCHANGED pageVars

\* A page without timeline entries (renderIntro writes no slide and
\* setupTimelinePager returns at once), before any typewriter was started.
InitTypewriter ==
    /\ entries = <<>>
    /\ modalMarkup = TRUE
    /\ pagerReady = FALSE
    /\ activeIndex = 0
    /\ slides = <<>>
    /\ triggers = <<>>
    /\ navDisabled = FALSE
    /\ plus = <<>>
    /\ owner = Null
    /\ modal = ModalClosed(EmptyContent)
    /\ focus = Body
    /\ last = [op |-> "markup", arg |-> 0, prevOwner |-> Null,
               focusCall |-> Null]
    /\ runs = <<>>
    /\ controllers = [t \in Targets |-> 0]
    /\ headings = [t \in Targets |-> HeadingMarkup]
    /\ waits = [aborted |-> FALSE, list |-> <<>>]
    /\ calc = NoCall
    /\ tiles = <<>>
    /\ appearance = AppearanceAtLoad(NullItem, FALSE)
    /\ checkbox = CheckboxAtRest(FALSE)

NextTypewriter ==
    \/ \E t \in Targets, lines \in LineInputs, p \in BOOLEAN, rm \in BOOLEAN :
          StartHeroTypewriter(t, lines, p, rm)
    \/ \E id \in 1..Len(runs) : TimerFires(id)
    \/ RenderGreeting

SpecTypewriter == InitTypewriter /\ [][NextTypewriter]_vars

\* --------------------------------------------- headings from content
\* content.typewriter_lines (isArray tells whether it is an array) and
\* content.heading of a section of the content document.
ContentInputs ==
    [isArray : BOOLEAN,
     typewriter_lines : { << <<" ">> >>, << <<" ", "h", "i">>, <<>> >> },
     heading : { <<" ">>, <<"H", " ">> }]

\* .map(line => `${line ?? ""}`.trim()).filter(Boolean)
TrimmedNonBlank(lines) ==
    LET trimmed == [k \in 1..Len(lines) |-> Trim(lines[k])]
    IN  SelectSeq(trimmed, LAMBDA line : line # <<>>)

\* Mutant: without configured lines and heading nothing is substituted.
ResolveHeroRotatingLinesNoFallback(content) ==
    LET configuredLines == IF content.isArray
                           THEN TrimmedNonBlank(content.typewriter_lines)
                           ELSE <<>>
    IN  IF Len(configuredLines) > 0 THEN configuredLines
        ELSE IF Trim(content.heading) # <<>> THEN << Trim(content.heading) >>
        ELSE <<>>

\* resolveHeroRotatingLines(content)
ResolveHeroRotatingLines(content) ==
    LET configuredLines == IF content.isArray
                           THEN TrimmedNonBlank(content.typewriter_lines)
                           ELSE <<>>
    IN  IF Len(configuredLines) > 0 THEN configuredLines
        ELSE IF Trim(content.heading) # <<>> THEN << Trim(content.heading) >>
        ELSE FallbackLines

\* renderIntro / renderProjects: the section's heading gets the lines
\* resolved from the section's content (renderProjects asks for pairs).
RenderHeading(content, renderAsPairs, reducedMotion) ==
    /\ StartHero("intro", ResolveHeroRotatingLines(content), renderAsPairs,
                 reducedMotion)
    /\ calc' = [fn |-> "resolveHeroRotatingLines", arg |-> content,
                result |-> ResolveHeroRotatingLines(content)]
    /\ UNCHANGED waits
    /\ UNCHANGED timelineVars /\ UNCHANGED pageVars

NextHero ==
    \/ \E content \in ContentInputs, p \in BOOLEAN :
          RenderHeading(content, p, FALSE)
    \/ \E lines \in LineInputs :
          StartHeroTypewriter("greeting", lines, FALSE, FALSE)
    \/ \E id \in 1..Len(runs) : TimerFires(id)

SpecHero == InitTypewriter /\ [][NextHero]_vars

\* ------------------------------------------- sessions and their ends
\* Values thrown inside an animation loop by something other than a
\* cancelled wait: an Error, and a value that is not an Error.
Failures ==
    { [isError |-> TRUE, message |-> "failed"],
      [isError |-> FALSE, message |-> AbortedMessage] }

\* A step of the runner of run id throws error: its promise rejects and
\* the handler attached by startHeroTypewriter runs.
RunnerThrows(id, error) ==
    /\ id \in 1..Len(runs)
    /\ runs[id].pc \notin {"done", "static"}
    /\ ~runs[id].aborted
    /\ runs' = [runs EXCEPT ![id] = RunnerRejects(runs[id], error)]
    /\ UNCHANGED <<controllers, headings, waits, calc>>
    /\ UNCHANGED timelineVars /\ UNCHANGED pageVars

NextSession ==
    \/ \E lines \in LineInputs, p \in BOOLEAN :
          StartHeroTypewriter("greeting", lines, p, FALSE)
    \/ \E id \in 1..Len(runs) : TimerFires(id)
    \/ \E id \in 1..Len(runs), error \in Failures : RunnerThrows(id, error)
    \/ RenderGreeting

SpecSession == InitTypewriter /\ [][NextSession]_vars

\* The greeting heading is animated with the fallback lines, restarted and
\* re-rendered.
NextCancel ==
    \/ \E p \in BOOLEAN : StartHeroTypewriter("greeting", <<>>, p, FALSE)
    \/ \E id \in 1..Len(runs) : TimerFires(id)
    \/ RenderGreeting

\* Every pending timer of a run fires in the end.
FairSession ==
    /\ InitTypewriter
    /\ [][NextCancel]_vars
    /\ \A id \in 1..MaxStarts : WF_vars(TimerFires(id))

\* ------------------------------------------------ paired mode alone
\* Line lists for startHeroTypewriter in pairs mode: a pair without
\* question, and two pairs of which the second has no answer.
PairLineInputs ==
    { << <<>>, <<"a">> >>,
      << <<"q">>, <<"a", "b">>, <<"c">> >> }

NextPairs ==
    \/ \E t \in Targets, lines \in PairLineInputs :
          StartHeroTypewriter(t, lines, TRUE, FALSE)
    \/ \E id \in 1..Len(runs) : TimerFires(id)

SpecPairs == InitTypewriter /\ [][NextPairs]_vars

\* ---------------------------------------------------- waitForDelay alone
\* waitForDelay(durationMs, signal): the promise it returns.  state is
\* the promise's state, timer whether its timeout is scheduled, listener
\* whether onAbort is registered on the signal, timersSet the number of
\* setTimeout calls it made, error the message of its rejection.
WaitForDelay(hasSignal, aborted) ==
    IF ~hasSignal
    THEN [signal |-> FALSE, state |-> "pending", timer |-> TRUE,
          listener |-> FALSE, timersSet |-> 1, error |-> ""]
    ELSE IF aborted
    THEN [signal |-> TRUE, state |-> "rejected", timer |-> FALSE,
          listener |-> FALSE, timersSet |-> 0, error |-> AbortedMessage]
    ELSE [signal |-> TRUE, state |-> "pending", timer |-> TRUE,
          listener |-> TRUE, timersSet |-> 1, error |-> ""]

\* The timeout callback of a wait.
OnTimeout(w) ==
    [w EXCEPT !.state = "resolved", !.timer = FALSE, !.listener = FALSE]

\* Mutant: a cancelled wait resolves early instead of rejecting.
OnAbortResolves(w) ==
    IF w.listener
    THEN [w EXCEPT !.state = "resolved", !.timer = FALSE, !.listener = FALSE]
    ELSE w

\* The "abort" event reaches a wait: onAbort runs if it is registered.
OnAbort(w) ==
    IF w.listener
    THEN [w EXCEPT !.state = "rejected", !.timer = FALSE, !.listener = FALSE,
                   !.error = AbortedMessage]
    ELSE w

\* No wait was started and the controller is not aborted.
InitWait ==
    /\ entries = <<>>
    /\ modalMarkup = TRUE
    /\ pagerReady = FALSE
    /\ activeIndex = 0
    /\ slides = <<>>
    /\ triggers = <<>>
    /\ navDisabled = FALSE
    /\ plus = <<>>
    /\ owner = Null
    /\ modal = ModalClosed(EmptyContent)
    /\ focus = Body
    /\ last = [op |-> "markup", arg |-> 0, prevOwner |-> Null,
               focusCall |-> Null]
    /\ runs = <<>>
    /\ controllers = [t \in Targets |-> 0]
    /\ headings = [t \in Targets |-> HeadingMarkup]
    /\ waits = [aborted |-> FALSE, list |-> <<>>]
    /\ calc = NoCall
    /\ tiles = <<>>
    /\ appearance = AppearanceAtLoad(NullItem, FALSE)
    /\ checkbox = CheckboxAtRest(FALSE)

\* A call waitForDelay(d, signal) or waitForDelay(d).
CallWaitForDelay(hasSignal) ==
    /\ Len(waits.list) < MaxWaits
    /\ waits' = [waits EXCEPT
                   !.list = Append(@, WaitForDelay(hasSignal, waits.aborted))]
    /\ UNCHANGED <<runs, controllers, headings, calc>>
    /\ UNCHANGED timelineVars /\ UNCHANGED pageVars

\* The timeout of wait k fires.
WaitTimerFires(k) ==
    /\ k \in 1..Len(waits.list)
    /\ waits.list[k].timer
    /\ waits' = [waits EXCEPT !.list[k] = OnTimeout(@)]
    /\ UNCHANGED <<runs, controllers, headings, calc>>
    /\ UNCHANGED timelineVars /\ UNCHANGED pageVars

\* controller.abort(): the signal becomes aborted and dispatches "abort"
\* once to the registered listeners.
AbortController ==
    /\ ~waits.aborted
    /\ waits' = [aborted |-> TRUE,
                 list |-> [k \in 1..Len(waits.list) |-> OnAbort(waits.list[k])]]
    /\ UNCHANGED <<runs, controllers, headings, calc>>
    /\ UNCHANGED timelineVars /\ UNCHANGED pageVars

NextWait ==
    \/ \E hasSignal \in BOOLEAN : CallWaitForDelay(hasSignal)
    \/ \E k \in 1..Len(waits.list) : WaitTimerFires(k)
    \/ AbortController

SpecWait == InitWait /\ [][NextWait]_vars

\* ------------------------------------- timelinePlusGoXHandler alone
\* The delegated "change" listener hands every "+" checkbox found inside
\* #timeline to timelinePlusGoXHandler, whatever entry its slide points
\* at.  Here the pager is set up and a checkbox exists in every slide,
\* also in the slides whose entry has a blank description, and in one
\* slide whose data-index has no entry in renderedTimelineEntries.
InitToggle ==
    /\ \E n \in 1..MaxSlides :
          entries \in { [i \in 0..(n - 1) |-> Entry(i, f[i])] :
                            f \in [0..(n - 1) -> Descriptions] }
    /\ modalMarkup \in BOOLEAN
    /\ pagerReady = TRUE
    /\ activeIndex = 0
    /\ slides = [i \in DOMAIN entries |-> SlideState(i = 0)]
    /\ triggers = [i \in DOMAIN entries |-> TriggerState(i = 0)]
    /\ navDisabled = (Cardinality(DOMAIN entries) <= 1)
    /\ plus = [s \in 0..Cardinality(DOMAIN entries) |-> PlusMarkup]
    /\ owner = Null
    /\ modal = ModalClosed(EmptyContent)
    /\ focus = Body
    /\ last = [op |-> "setup", arg |-> 0, prevOwner |-> Null,
               focusCall |-> Null]
    /\ runs = <<>>
    /\ controllers = [t \in Targets |-> 0]
    /\ headings = [t \in Targets |-> HeadingMarkup]
    /\ waits = [aborted |-> FALSE, list |-> <<>>]
    /\ calc = NoCall
    /\ tiles = <<>>
    /\ appearance = AppearanceAtLoad(NullItem, FALSE)
    /\ checkbox = CheckboxAtRest(FALSE)

NextToggle ==
    \/ \E s \in DOMAIN plus : TogglePlus(s)
    \/ KeyEscape
    \/ ClickModalClose

SpecToggle == InitToggle /\ [][NextToggle]_vars

\* ----------------------------------------------- highlightHeroLine
\* Largest length of a line handed to highlightHeroLine.
MaxChars == 4

\* The characters of those lines: letters of a keyword in both cases and
\* HTML-reserved characters.
LineChars == {"c", "i", "I", "&", "<", "'"}

\* Stand-in for HERO_HIGHLIGHT_PATTERN (an alternation of keywords,
\* matched case-insensitive): its alternative "ci".
Keywords == << <<"c", "i">> >>

\* The opening and the closing tag of the accent span, one element each.
SpanOpen == "<span class=\"hero-typewriter-accent\">"
SpanClose == "</span>"

\* String.replaceAll(ch, replacement), from position k on.
RECURSIVE ReplaceAllFrom(_, _, _, _)
ReplaceAllFrom(s, ch, replacement, k) ==
    IF k > Len(s) THEN <<>>
    ELSE (IF s[k] = ch THEN replacement ELSE <<s[k]>>)
         \o ReplaceAllFrom(s, ch, replacement, k + 1)

ReplaceAll(s, ch, replacement) == ReplaceAllFrom(s, ch, replacement, 1)

\* Mutant: the ampersand is replaced last, after the entities were written.
EscapeHTMLAmpersandLast(value) ==
    ReplaceAll(
      ReplaceAll(
        ReplaceAll(
          ReplaceAll(
            ReplaceAll(value, "<", <<"&", "l", "t", ";">>),
            ">", <<"&", "g", "t", ";">>),
          "\"", <<"&", "q", "u", "o", "t", ";">>),
        "'", <<"&", "#", "3", "9", ";">>),
      "&", <<"&", "a", "m", "p", ";">>)

\* escapeHTML(value)
EscapeHTML(value) ==
    ReplaceAll(
      ReplaceAll(
        ReplaceAll(
          ReplaceAll(
            ReplaceAll(value, "&", <<"&", "a", "m", "p", ";">>),
            "<", <<"&", "l", "t", ";">>),
          ">", <<"&", "g", "t", ";">>),
        "\"", <<"&", "q", "u", "o", "t", ";">>),
      "'", <<"&", "#", "3", "9", ";">>)

\* The "i" flag: the letter compared without case.
LowerCase(ch) == IF ch = "C" THEN "c" ELSE IF ch = "I" THEN "i" ELSE ch

\* The length of the pattern's match starting at position i of line: the
\* first alternative that matches there; 0 when none does.
MatchLengthAt(line, i) ==
    LET fits(kw) == /\ i + Len(kw) - 1 <= Len(line)
                    /\ \A j \in 1..Len(kw) : LowerCase(line[i + j - 1]) = kw[j]
        hits == {k \in 1..Len(Keywords) : fits(Keywords[k])}
    IN  IF hits = {} THEN 0
        ELSE Len(Keywords[CHOOSE k \in hits : \A h \in hits : k <= h])

\* highlightHeroLine: line.matchAll(regex) scanned from position i, the
\* literal text pending since currentIndex.
RECURSIVE HighlightFrom(_, _, _)
HighlightFrom(line, i, currentIndex) ==
    IF i > Len(line)
    THEN EscapeHTML(SubSeq(line, currentIndex, Len(line)))
    ELSE IF MatchLengthAt(line, i) > 0
    THEN EscapeHTML(SubSeq(line, currentIndex, i - 1))
         \o <<SpanOpen>>
         \o EscapeHTML(SubSeq(line, i, i + MatchLengthAt(line, i) - 1))
         \o <<SpanClose>>
         \o HighlightFrom(line, i + MatchLengthAt(line, i),
                          i + MatchLengthAt(line, i))
    ELSE HighlightFrom(line, i + 1, currentIndex)

\* highlightHeroLine(line) as the string it returns.
HighlightHeroLineHTML(line) == HighlightFrom(line, 1, 1)

\* highlightHeroLine(line)
CallHighlightHeroLine(line) ==
    /\ calc = NoCall
    /\ calc' = [fn |-> "highlightHeroLine", arg |-> line,
                result |-> HighlightHeroLineHTML(line)]
    /\ UNCHANGED <<runs, controllers, headings, waits>>
    /\ UNCHANGED timelineVars /\ UNCHANGED pageVars

\* ---------------------------------------------------------- parseColor
\* A JavaScript number: NaN, or the rational num / den.
NaN == [nan |-> TRUE, num |-> 0, den |-> 1]
Num(n) == [nan |-> FALSE, num |-> n, den |-> 1]
Ratio(n, d) == [nan |-> FALSE, num |-> n, den |-> d]

\* null, and a colour {r, g, b, a}.
NullColor ==
    [isNull |-> TRUE, r |-> NaN, g |-> NaN, b |-> NaN, a |-> NaN]
Color(r, g, b, a) == [isNull |-> FALSE, r |-> r, g |-> g, b |-> b, a |-> a]

\* The digits in the order of their values; upper case letters are read
\* as the lower case ones.
HexDigits == <<"0", "1", "2", "3", "4", "5", "6", "7", "8", "9",
               "a", "b", "c", "d", "e", "f">>

LowerHex(ch) ==
    CASE ch = "A" -> "a" [] ch = "B" -> "b" [] ch = "C" -> "c"
      [] ch = "D" -> "d" [] ch = "E" -> "e" [] ch = "F" -> "f"
      [] OTHER -> ch

\* The value of ch as a digit of the radix, -1 when it is none.
DigitValue(ch, radix) ==
    LET hits == {k \in 1..radix : HexDigits[k] = LowerHex(ch)}
    IN  IF hits = {} THEN -1 ELSE (CHOOSE k \in hits : TRUE) - 1

\* The number of leading characters of s that are digits of the radix.
RECURSIVE DigitPrefixLen(_, _)
DigitPrefixLen(s, radix) ==
    IF s = <<>> \/ DigitValue(Head(s), radix) < 0 THEN 0
    ELSE 1 + DigitPrefixLen(Tail(s), radix)

\* The value of the digit string s in the radix.
RECURSIVE DigitsValue(_, _)
DigitsValue(s, radix) ==
    IF s = <<>> THEN 0
    ELSE DigitsValue(SubSeq(s, 1, Len(s) - 1), radix) * radix
         + DigitValue(s[Len(s)], radix)

\* Number.parseInt(s, 16) for s without whitespace, sign and 0x prefix:
\* the longest prefix of hex digits, NaN when it is empty.
ParseInt16(s) ==
    IF DigitPrefixLen(s, 16) = 0 THEN NaN
    ELSE Num(DigitsValue(SubSeq(s, 1, DigitPrefixLen(s, 16)), 16))

\* Mutant: the three-digit form reads each digit once, not doubled.
ParseHexColorSingleDigits(color) ==
    LET value == Trim(color)
        hex == Tail(value)
    IN  IF value = <<>> \/ Head(value) # "#" THEN NullColor
        ELSE IF Len(hex) = 3
        THEN Color(ParseInt16(<<hex[1]>>), ParseInt16(<<hex[2]>>),
                   ParseInt16(<<hex[3]>>), Num(1))
        ELSE IF Len(hex) = 6 \/ Len(hex) = 8
        THEN LET alpha == IF Len(hex) = 8
                          THEN ParseInt16(SubSeq(hex, 7, 8)) ELSE NaN
             IN  Color(ParseInt16(SubSeq(hex, 1, 2)),
                       ParseInt16(SubSeq(hex, 3, 4)),
                       ParseInt16(SubSeq(hex, 5, 6)),
                       IF alpha.nan THEN Num(1) ELSE Ratio(alpha.num, 255))
        ELSE NullColor

\* parseHexColor(color)
ParseHexColor(color) ==
    LET value == Trim(color)
        hex == Tail(value)
    IN  IF value = <<>> \/ Head(value) # "#" THEN NullColor
        ELSE IF Len(hex) = 3
        THEN Color(ParseInt16(<<hex[1], hex[1]>>),
                   ParseInt16(<<hex[2], hex[2]>>),
                   ParseInt16(<<hex[3], hex[3]>>), Num(1))
        ELSE IF Len(hex) = 6 \/ Len(hex) = 8
        THEN LET alpha == IF Len(hex) = 8
                          THEN ParseInt16(SubSeq(hex, 7, 8)) ELSE NaN
             IN  Color(ParseInt16(SubSeq(hex, 1, 2)),
                       ParseInt16(SubSeq(hex, 3, 4)),
                       ParseInt16(SubSeq(hex, 5, 6)),
                       IF alpha.nan THEN Num(1) ELSE Ratio(alpha.num, 255))
        ELSE NullColor

\* Number.parseFloat(token) for a token of digits and dots: the digits
\* before the first dot and the digits that follow that dot.
ParseFloat(token) ==
    LET intLen == DigitPrefixLen(token, 10)
        rest == SubSeq(token, intLen + 1, Len(token))
        fracLen == IF rest # <<>> /\ Head(rest) = "."
                   THEN DigitPrefixLen(Tail(rest), 10) ELSE 0
        pow10[k \in 0..Len(token)] == IF k = 0 THEN 1 ELSE 10 * pow10[k - 1]
    IN  IF intLen = 0 /\ fracLen = 0 THEN NaN
        ELSE Ratio(DigitsValue(SubSeq(token, 1, intLen), 10) * pow10[fracLen]
                      + DigitsValue(SubSeq(rest, 2, fracLen + 1), 10),
                   pow10[fracLen])

\* inner.match(/[\d.]+/g): the maximal runs of digits and dots, the run
\* being collected in token.
RECURSIVE NumberTokens(_, _)
NumberTokens(s, token) ==
    IF s = <<>> THEN (IF token = <<>> THEN <<>> ELSE <<token>>)
    ELSE IF DigitValue(Head(s), 10) >= 0 \/ Head(s) = "."
    THEN NumberTokens(Tail(s), Append(token, Head(s)))
    ELSE (IF token = <<>> THEN <<>> ELSE <<token>>)
         \o NumberTokens(Tail(s), <<>>)

\* /^rgba?\(([^)]+)\)$/i: the captured group, <<>> when there is no match.
RgbGroup(value) ==
    LET lower == [k \in 1..Len(value) |->
                    CASE value[k] = "R" -> "r" [] value[k] = "G" -> "g"
                      [] value[k] = "B" -> "b" [] value[k] = "A" -> "a"
                      [] OTHER -> value[k]]
        open == IF Len(value) >= 4 /\ SubSeq(lower, 1, 4) = <<"r", "g", "b", "(">>
                THEN 4
                ELSE IF Len(value) >= 5
                        /\ SubSeq(lower, 1, 5) = <<"r", "g", "b", "a", "(">>
                THEN 5 ELSE 0
        inner == SubSeq(value, open + 1, Len(value) - 1)
    IN  IF open = 0 \/ value[Len(value)] # ")" \/ inner = <<>>
           \/ \E k \in 1..Len(inner) : inner[k] = ")"
        THEN <<>>
        ELSE inner

\* parseRgbColor(color)
ParseRgbColor(color) ==
    LET inner == RgbGroup(Trim(color))
        tokens == NumberTokens(inner, <<>>)
        channels == [k \in 1..Len(tokens) |-> ParseFloat(tokens[k])]
    IN  IF inner = <<>> THEN NullColor
        ELSE IF Len(channels) < 3 \/ \E k \in 1..3 : channels[k].nan
        THEN NullColor
        ELSE Color(channels[1], channels[2], channels[3],
                   IF Len(channels) >= 4 /\ ~channels[4].nan
                   THEN channels[4] ELSE Num(1))

\* parseColor(color)
ParseColor(color) ==
    IF ~ParseHexColor(color).isNull THEN ParseHexColor(color)
    ELSE ParseRgbColor(color)

\* The characters after "#": hex digits in both cases and a letter that
\* is no hex digit.
HexChars == {"0", "9", "a", "F", "g"}

\* Two-character groups of those.
HexGroups == { <<"0", "0">>, <<"9", "a">>, <<"F", "f">>, <<"1", "g">>,
               <<"g", "1">> }

\* Colour strings: "#" with three characters, with three and with four
\* groups, with other lengths, rgb()/rgba() forms, and other text.
ColorInputs ==
    { <<"#", a, b, c>> : a, b, c \in HexChars }
    \cup { <<"#">> \o g1 \o g2 \o g3 : g1, g2, g3 \in HexGroups }
    \cup { <<"#">> \o g1 \o g2 \o g3 \o g4 : g1, g2, g3, g4 \in HexGroups }
    \cup { <<>>, <<"#">>, <<"#", "f", "f">>, <<"#", "0", "9", "a", "F">>,
           <<" ", "#", "0", "9", "a", " ">>, <<"9", "a", "F">>,
           <<"r", "e", "d">>,
           <<"r", "g", "b", "(", "1", ",", "2", "0", ",", "3", ")">>,
           <<"R", "G", "B", "A", "(", "1", " ", "2", " ", "3", " ", ".", "5", ")">>,
           <<"r", "g", "b", "(", "1", ".", "5", ",", "2", ",", ".", ")">>,
           <<"r", "g", "b", "(", "1", ",", "2", ")">>,
           <<"r", "g", "b", "(", ")">>,
           <<"r", "g", "b", "(", "1", ",", "2", ",", "3", ")", ")">>,
           <<"r", "g", "b", "(", "1", ",", "2", ",", "3">> }

\* parseColor(color)
CallParseColor(color) ==
    /\ calc = NoCall
    /\ calc' = [fn |-> "parseColor", arg |-> color,
                result |-> ParseColor(color)]
    /\ UNCHANGED <<runs, controllers, headings, waits>>
    /\ UNCHANGED timelineVars /\ UNCHANGED pageVars

\* ------------------------------------------------------ pure functions
\* Each action below is one call of a pure function of the page's code on
\* an argument from a bounded set; calc records the call and its result.
\* The functions keep no state, so a behaviour makes one call.

\* Largest number of lines handed to buildTypewriterPairs.
MaxLines == 3

\* The strings the lines are drawn from: empty, blank, plain, padded.
PairStrings == { <<>>, <<" ">>, <<"Q">>, <<" ", "A", " ">> }

\* All sequences over S of length at most n.
SeqsUpTo(S, n) == UNION { [1..k -> S] : k \in 0..n }

\* buildTypewriterPairs(lines)
CallBuildTypewriterPairs(lines) ==
    /\ calc = NoCall
    /\ calc' = [fn |-> "buildTypewriterPairs", arg |-> lines,
                result |-> BuildTypewriterPairs(lines)]
    /\ UNCHANGED <<runs, controllers, headings, waits>>
    /\ UNCHANGED timelineVars /\ UNCHANGED pageVars

\* ------------------------------------------------------- colour model
\* Arithmetic on numbers [nan, num, den]: NaN goes through every
\* operation and makes every comparison false; quotients are kept reduced.
RECURSIVE Gcd(_, _)
Gcd(a, b) == IF b = 0 THEN a ELSE Gcd(b, a % b)

\* Op applied to the value of an expression, which is evaluated once.
Value(expression, Op(_)) == CHOOSE r \in {Op(v) : v \in {expression}} : TRUE

Reduce(x) ==
    Value(x, LAMBDA v :
        IF v.nan THEN NaN
        ELSE Value(Gcd(v.num, v.den), LAMBDA g :
                 Ratio(v.num \div g, v.den \div g)))

Plus(x, y) ==
    Value(<<x, y>>, LAMBDA v :
        IF v[1].nan \/ v[2].nan THEN NaN
        ELSE Reduce(Ratio(v[1].num * v[2].den + v[2].num * v[1].den,
                          v[1].den * v[2].den)))

Times(x, y) ==
    Value(<<x, y>>, LAMBDA v :
        IF v[1].nan \/ v[2].nan THEN NaN
        ELSE Reduce(Ratio(v[1].num * v[2].num, v[1].den * v[2].den)))

Minus(x, y) == Plus(x, Times(Num(-1), y))

\* a/b >= c/d for naturals a, c and positive b, d, by comparing the
\* integer parts and then the remainders, so that no product is needed.
RECURSIVE FractionGE(_, _, _, _)
FractionGE(a, b, c, d) ==
    IF a \div b # c \div d THEN a \div b > c \div d
    ELSE IF c % d = 0 THEN TRUE
    ELSE IF a % b = 0 THEN FALSE
    ELSE FractionGE(d, c % d, b, a % b)

\* x >= y of two numbers with non-negative numerators.
GreaterEq(x, y) ==
    /\ ~x.nan
    /\ ~y.nan
    /\ FractionGE(x.num, x.den, y.num, y.den)

\* Math.max and Math.min: NaN when an argument is NaN.
MathMax(x, y) ==
    Value(<<x, y>>, LAMBDA v :
        IF v[1].nan \/ v[2].nan THEN NaN
        ELSE IF GreaterEq(v[1], v[2]) THEN v[1] ELSE v[2])
MathMin(x, y) ==
    Value(<<x, y>>, LAMBDA v :
        IF v[1].nan \/ v[2].nan THEN NaN
        ELSE IF GreaterEq(v[1], v[2]) THEN v[2] ELSE v[1])

\* An RGB triplet {r, g, b}, and the four constants of js/main.js.
Rgb(r, g, b) == [r |-> r, g |-> g, b |-> b]
LIGHT_SURFACE_RGB == Rgb(Num(236), Num(243), Num(251))
DARK_SURFACE_RGB == Rgb(Num(16), Num(24), Num(42))
LIGHT_TEXT_RGB == Rgb(Num(246), Num(251), Num(255))
DARK_TEXT_RGB == Rgb(Num(15), Num(35), Num(66))

\* blendOverBackground: foreground * alpha + background * (1 - alpha),
\* alpha being foreground.a clamped to [0, 1].
BlendOverBackground(foreground, background) ==
    Value(<<foreground, background>>, LAMBDA v :
    Value(MathMin(MathMax(v[1].a, Num(0)), Num(1)), LAMBDA alpha :
    Value(Minus(Num(1), alpha), LAMBDA inverseAlpha :
        Rgb(Plus(Times(v[1].r, alpha), Times(v[2].r, inverseAlpha)),
            Plus(Times(v[1].g, alpha), Times(v[2].g, inverseAlpha)),
            Plus(Times(v[1].b, alpha), Times(v[2].b, inverseAlpha))))))

\* averageRgb: the channel-wise mean of one or two samples, and
\* LIGHT_SURFACE_RGB for none.
AverageRgb(colors) ==
    Value(colors, LAMBDA v :
        IF v = <<>> THEN LIGHT_SURFACE_RGB
        ELSE LET total(ch) == IF Len(v) = 1 THEN ch[1] ELSE Plus(ch[1], ch[2])
                 mean(ch) == Times(total(ch), Ratio(1, Len(v)))
             IN  Rgb(mean([k \in 1..Len(v) |-> v[k].r]),
                     mean([k \in 1..Len(v) |-> v[k].g]),
                     mean([k \in 1..Len(v) |-> v[k].b])))

\* Linear-light values and luminances are fixed-point numbers: a linear
\* channel is a multiple of 1/LinearScale, a luminance of 1/LuminanceScale.
LinearScale == 100000
LuminanceScale == 1000000000

\* ((normalized + 0.055) / 1.055) ** 2.4 in units of 1/LinearScale, rounded
\* to the nearest unit, for the channel values num/den the colours of this
\* model have above the linear threshold.
Pow2p4 ==
    <<11, 1>> :> 335 @@ <<15, 1>> :> 478 @@ <<16, 1>> :> 518 @@
    <<24, 1>> :> 913 @@ <<35, 1>> :> 1681 @@ <<42, 1>> :> 2315 @@
    <<66, 1>> :> 5448 @@ <<2596, 25>> :> 13798 @@ <<649, 5>> :> 22248 @@
    <<2647, 20>> :> 23207 @@ <<698, 5>> :> 26062 @@
    <<14927, 100>> :> 30174 @@ <<4381, 25>> :> 43000 @@
    <<3771, 20>> :> 50618 @@ <<236, 1>> :> 83880 @@
    <<12123, 50>> :> 89176 @@ <<243, 1>> :> 89627 @@ <<491, 2>> :> 91733 @@
    <<246, 1>> :> 92158 @@ <<6177, 25>> :> 93080 @@ <<249, 1>> :> 94731 @@
    <<251, 1>> :> 96469 @@ <<6309, 25>> :> 97661 @@ <<1264, 5>> :> 98049 @@
    <<253, 1>> :> 98225 @@ <<6331, 25>> :> 98437 @@ <<255, 1>> :> 100000

\* toLinearChannel: normalized / 12.92 up to 0.03928 (num/den/255 <=
\* 0.03928 is 12500 num <= 125205 den), the power above it.
ToLinearChannel(channel) ==
    IF channel.nan THEN NaN
    ELSE IF channel.num * 12500 <= 125205 * channel.den
         THEN Ratio((channel.num * 1000000 + channel.den * 16473)
                        \div (channel.den * 32946), LinearScale)
         ELSE Ratio(Pow2p4[<<channel.num, channel.den>>], LinearScale)

\* relativeLuminance: 0.2126 R + 0.7152 G + 0.0722 B of the linear channels.
RelativeLuminance(color) ==
    Value(color, LAMBDA c :
    Value(<<ToLinearChannel(c.r), ToLinearChannel(c.g), ToLinearChannel(c.b)>>,
          LAMBDA linear :
        IF linear[1].nan \/ linear[2].nan \/ linear[3].nan THEN NaN
        ELSE Ratio(2126 * linear[1].num + 7152 * linear[2].num
                      + 722 * linear[3].num, LuminanceScale)))

\* A variant that divides the first luminance by the second, whichever is
\* the lighter.
ContrastRatioUnordered(first, second) ==
    Value(<<RelativeLuminance(first), RelativeLuminance(second)>>,
          LAMBDA luminance :
        IF luminance[1].nan \/ luminance[2].nan THEN NaN
        ELSE Ratio(luminance[1].num + LuminanceScale \div 20,
                   luminance[2].num + LuminanceScale \div 20))

\* contrastRatio: (lighter + 0.05) / (darker + 0.05). Both luminances have
\* the denominator LuminanceScale, which the quotient cancels.
ContrastRatio(first, second) ==
    Value(<<RelativeLuminance(first), RelativeLuminance(second)>>,
          LAMBDA luminance :
    Value(<<MathMax(luminance[1], luminance[2]),
            MathMin(luminance[1], luminance[2])>>, LAMBDA ordered :
        IF ordered[1].nan \/ ordered[2].nan THEN NaN
        ELSE Ratio(ordered[1].num + LuminanceScale \div 20,
                   ordered[2].num + LuminanceScale \div 20)))

\* Colours contrastRatio is called with: the two text candidates, the two
\* page surfaces, black, white, two greys on either side of the linear
\* threshold and the surface estimated for a tile with accent #007aff.
ColorSamples ==
    { DARK_TEXT_RGB, LIGHT_TEXT_RGB, LIGHT_SURFACE_RGB, DARK_SURFACE_RGB,
      Rgb(Num(0), Num(0), Num(0)), Rgb(Num(255), Num(255), Num(255)),
      Rgb(Num(10), Num(10), Num(10)), Rgb(Num(11), Num(11), Num(11)),
      Rgb(Ratio(649, 5), Ratio(3771, 20), Ratio(1264, 5)) }

CallContrastRatio(first, second) ==
    /\ calc = NoCall
    /\ calc' = [fn |-> "contrastRatio", arg |-> <<first, second>>,
                result |-> ContrastRatio(first, second)]
    /\ UNCHANGED <<runs, controllers, headings, waits>>
    /\ UNCHANGED timelineVars /\ UNCHANGED pageVars

\* Nothing was rendered and no function was called.
InitPure ==
    /\ entries = <<>>
    /\ modalMarkup = TRUE
    /\ pagerReady = FALSE
    /\ activeIndex = 0
    /\ slides = <<>>
    /\ triggers = <<>>
    /\ navDisabled = FALSE
    /\ plus = <<>>
    /\ owner = Null
    /\ modal = ModalClosed(EmptyContent)
    /\ focus = Body
    /\ last = [op |-> "markup", arg |-> 0, prevOwner |-> Null,
               focusCall |-> Null]
    /\ runs = <<>>
    /\ controllers = [t \in Targets |-> 0]
    /\ headings = [t \in Targets |-> HeadingMarkup]
    /\ waits = [aborted |-> FALSE, list |-> <<>>]
    /\ calc = NoCall
    /\ tiles = <<>>
    /\ appearance = AppearanceAtLoad(NullItem, FALSE)
    /\ checkbox = CheckboxAtRest(FALSE)

NextPure ==
    \/ \E lines \in SeqsUpTo(PairStrings, MaxLines) :
          CallBuildTypewriterPairs(lines)
    \/ \E line \in SeqsUpTo(LineChars, MaxChars) :
          CallHighlightHeroLine(line)
    \/ \E color \in ColorInputs : CallParseColor(color)
    \/ \E first \in ColorSamples, second \in ColorSamples :
          CallContrastRatio(first, second)

SpecPure == InitPure /\ [][NextPure]_vars

\* ---------------------------------------------------------------- claims
\* The handlers that end in a setActiveSlide.
SwitchOps == {"setup", "prev", "next", "trigger", "ArrowLeft", "ArrowRight"}

\* C1: when a "+" control B is toggled open while the modal is owned by a
\* different control A, A ends closed (checked = false, aria-expanded =
\* "false"), B ends open (checked = true, aria-expanded = "true") and B is
\* the recorded modal owner.
C1_ModalHandover ==
    (/\ modalMarkup
     /\ last.op = "toggle"
     /\ last.prevOwner # Null
     /\ last.prevOwner # Checkbox(last.arg))
    => /\ ~plus[last.prevOwner.index].checked
       /\ plus[last.prevOwner.index].ariaExpanded = "false"
       /\ plus[last.arg].checked
       /\ plus[last.arg].ariaExpanded = "true"
       /\ owner = Checkbox(last.arg)
       /\ Cardinality({s \in DOMAIN plus : plus[s].checked}) = 1

\* C1 witness: a toggle of B took the modal over from another owner A.
C1_Witness ==
    /\ modalMarkup
    /\ last.op = "toggle"
    /\ last.prevOwner # Null
    /\ last.prevOwner # Checkbox(last.arg)
    /\ owner = Checkbox(last.arg)
    /\ modal.isOpen

\* C2: with the modal markup present, at most one timeline "+" control is
\* checked, and a checked control is the recorded modal owner.
C2_SingleOpenControl ==
    modalMarkup =>
        /\ Cardinality({s \in DOMAIN plus : plus[s].checked}) <= 1
        /\ \A s \in DOMAIN plus : plus[s].checked => owner = Checkbox(s)

\* C2 witness: several controls exist, one owns the open modal, and a slide
\* switch to the owner's slide has just left it open.
C2_Witness ==
    /\ modalMarkup
    /\ Cardinality(DOMAIN plus) >= 2
    /\ last.op = "trigger"
    /\ owner # Null
    /\ plus[owner.index].checked
    /\ last.prevOwner = owner

\* C3: with the modal markup present, "overlay shown" (is-open and
\* aria-hidden = "false"), "scroll lock held" and "an owner is recorded" are
\* all true or all false, and a recorded owner is checked with
\* aria-expanded = "true".
C3_OwnershipConsistent ==
    modalMarkup =>
        /\ modal.isOpen = (owner # Null)
        /\ modal.bodyLock = (owner # Null)
        /\ modal.ariaHidden = (IF owner # Null THEN "false" ELSE "true")
        /\ owner # Null =>
              /\ owner.kind = "checkbox"
              /\ owner.index \in DOMAIN plus
              /\ plus[owner.index].checked
              /\ plus[owner.index].ariaExpanded = "true"

\* C3 witness: the modal was opened and then closed again by Escape.
C3_Witness ==
    /\ modalMarkup
    /\ last.op = "Escape"
    /\ last.prevOwner # Null
    /\ owner = Null
    /\ ~modal.isOpen
    /\ ~modal.bodyLock

\* A run whose cancellation token exists and is not signaled.
LiveRun(id) == runs[id].hasController /\ ~runs[id].aborted

\* C4: for each target at most one session with an unsignaled cancellation
\* token exists, and it is the one registered for the target in
\* typewriterControllers, created by the target's most recent start.
C4_OneLiveSessionPerTarget ==
    \A t \in Targets :
        /\ Cardinality({id \in 1..Len(runs) :
                            runs[id].target = t /\ LiveRun(id)}) <= 1
        /\ \A id \in 1..Len(runs) :
              (runs[id].target = t /\ LiveRun(id)) =>
                  /\ controllers[t] = id
                  /\ \A later \in (id + 1)..Len(runs) : runs[later].target # t

\* C4 witness: a target was restarted while its session was typing; the old
\* token is signaled and the new, registered session has begun to type.
C4_Witness ==
    \E id \in 1..Len(runs), later \in 1..Len(runs) :
        /\ id < later
        /\ runs[id].target = runs[later].target
        /\ runs[id].aborted
        /\ runs[id].markup # <<>>
        /\ LiveRun(later)
        /\ controllers[runs[later].target] = later
        /\ runs[later].pc \notin {"start", "done"}

\* C5: from the step in which startHeroTypewriter is called again for a
\* run's target on, that run writes nothing more into its text element, and
\* its cancellation token is signaled in that very step.
C5_NoPaintAfterRestart ==
    [][\A id \in 1..Len(runs) :
          (\E later \in (id + 1)..Len(runs') :
                runs'[later].target = runs[id].target)
          => /\ runs'[id].markup = runs[id].markup
             /\ runs[id].hasController => runs'[id].aborted]_vars

\* C5 witness: a session that had painted was superseded, its start or wait
\* timer is gone, and the new session has painted.
C5_Witness ==
    \E id \in 1..Len(runs), later \in 1..Len(runs) :
        /\ id < later
        /\ runs[id].target = runs[later].target
        /\ runs[id].hasController
        /\ runs[id].pc = "done"
        /\ runs[id].markup # <<>>
        /\ runs[later].hasController
        /\ runs[later].markup # <<>>

C7_ActiveIndexInRange ==
    pagerReady => activeIndex \in 0..(NumSlides - 1)

\* C7 witness: "previous" on the first slide wrapped to the last one.
C7_Witness ==
    /\ pagerReady
    /\ NumSlides >= 2
    /\ last.op = "prev"
    /\ last.arg = 0 - 1
    /\ activeIndex = NumSlides - 1

\* C8: once the pager is initialized exactly one slide is active: the slide
\* at the active index has is-active, aria-hidden = "false", tabindex = "0",
\* every other slide has none, "true" and "-1", and the trigger of the same
\* index is the only one with aria-selected = "true", aria-current = "true"
\* and tabindex = "0".
C8_ExactlyOneActiveSlide ==
    pagerReady =>
        /\ Cardinality({s \in DOMAIN slides : slides[s].isActive}) = 1
        /\ DOMAIN triggers = DOMAIN slides
        /\ \A s \in DOMAIN slides :
              IF s = activeIndex
              THEN /\ slides[s].isActive
                   /\ slides[s].ariaHidden = "false"
                   /\ slides[s].tabindex = "0"
                   /\ triggers[s].ariaSelected = "true"
                   /\ triggers[s].ariaCurrent = "true"
                   /\ triggers[s].tabindex = "0"
              ELSE /\ ~slides[s].isActive
                   /\ slides[s].ariaHidden = "true"
                   /\ slides[s].tabindex = "-1"
                   /\ triggers[s].ariaSelected = "false"
                   /\ triggers[s].ariaCurrent = "false"
                   /\ triggers[s].tabindex = "-1"

\* C8 witness: "next" made a slide other than the first one active.
C8_Witness ==
    /\ pagerReady
    /\ last.op = "next"
    /\ activeIndex = 1
    /\ slides[1].isActive
    /\ ~slides[0].isActive

\* C9: when a setActiveSlide makes a slide active that does not hold the
\* modal's owner control, then on return the modal is closed, ownership is
\* cleared, the former owner is closed and no .focus() was called on it.
C9_SwitchClosesModalWithoutFocus ==
    (/\ last.op \in SwitchOps
     /\ last.prevOwner # Null
     /\ last.prevOwner.index # activeIndex)
    => /\ ~modal.isOpen
       /\ modal.ariaHidden = "true"
       /\ ~modal.bodyLock
       /\ owner = Null
       /\ ~plus[last.prevOwner.index].checked
       /\ plus[last.prevOwner.index].ariaExpanded = "false"
       /\ last.focusCall # last.prevOwner
       /\ focus = last.prevOwner => last.focusCall = Null

\* C9 witness: "next" left the owner's slide; the modal is closed and
\* the focus the user had put on the control was left where it was.
C9_Witness ==
    /\ last.op = "next"
    /\ last.prevOwner # Null
    /\ last.prevOwner.index # activeIndex
    /\ owner = Null
    /\ focus = last.prevOwner

\* C10: after every setActiveSlide every "+" control of a slide that is
\* not the active one is closed (checked = false, aria-expanded = "false",
\* no checked / is-open class), its icon animation is "none" and its
\* animating guard is cleared.
C10_InactiveControlsReset ==
    last.op \in SwitchOps =>
        \A s \in DOMAIN plus :
            s # activeIndex =>
                /\ ~plus[s].checked
                /\ plus[s].ariaExpanded = "false"
                /\ ~plus[s].labelChecked
                /\ ~plus[s].containerOpen
                /\ plus[s].animation = "none"
                /\ ~plus[s].animating

\* C10 witness: an arrow key left a slide whose control had been toggled
\* open and closed (animated) before; the control now shows no animation.
C10_Witness ==
    /\ last.op = "ArrowRight"
    /\ last.prevOwner = Null
    /\ \E s \in DOMAIN plus : s # activeIndex /\ plus[s].animation = "none"
    /\ \E s \in DOMAIN plus : s = activeIndex /\ plus[s].animation = "make_plus"

\* C11: toggling the "+" control of a slide whose entry has a blank
\* description (empty or whitespace only), or of a slide with no matching
\* entry, snaps that control back to closed without animation, leaves the
\* modal owner and every other control as they were, and leaves the modal
\* (closed, or open for another owner with its content) unchanged.
C11_BlankToggleRejected ==
    [][(/\ last'.op = "toggle"
        /\ \/ last'.arg \notin DOMAIN entries
           \/ Trim(entries[last'.arg].description) = <<>>)
        => /\ ~plus'[last'.arg].checked
           /\ plus'[last'.arg].ariaExpanded = "false"
           /\ ~plus'[last'.arg].labelChecked
           /\ ~plus'[last'.arg].containerOpen
           /\ plus'[last'.arg].animation = "none"
           /\ ~plus'[last'.arg].animating
           /\ owner' = owner
           /\ owner' # Checkbox(last'.arg)
           /\ modal' = modal
           /\ \A s \in DOMAIN plus : s # last'.arg => plus'[s] = plus[s]
           /\ last'.focusCall = Null]_vars

\* C11 witness: a control with a blank description and the control of a
\* slide without entry were toggled while the modal was open for another
\* control; the modal is still open with that owner's content.
C11_Witness ==
    /\ modalMarkup
    /\ last.op = "toggle"
    /\ last.arg \in DOMAIN entries
    /\ entries[last.arg].description = <<" ">>
    /\ plus[last.arg].animation = "none"
    /\ plus[Cardinality(DOMAIN entries)].animation = "none"
    /\ owner # Null
    /\ last.prevOwner = owner
    /\ modal.isOpen
    /\ modal.content.title = entries[owner.index].title

\* C12: toggling a "+" control to checked, for an entry with a non-blank
\* description, opens the modal for that entry and makes the control the
\* owner; and in every state where the modal is open, the title, the meta
\* line (subtitle and date joined by " · ") and the description it shows
\* are those of the entry at the owner control's slide index.
C12_ModalShowsOwnerEntry ==
    /\ [](modalMarkup /\ modal.isOpen
            => /\ owner # Null
               /\ owner.index \in DOMAIN entries
               /\ modal.content.title = entries[owner.index].title
               /\ modal.content.meta =
                      entries[owner.index].subtitle \o <<" ", "·", " ">>
                          \o entries[owner.index].date
               /\ modal.content.description =
                      <<Trim(entries[owner.index].description)>>)
    /\ [][(/\ modalMarkup
           /\ last'.op = "toggle"
           /\ last'.arg \in DOMAIN entries
           /\ Trim(entries[last'.arg].description) # <<>>
           /\ ~plus[last'.arg].checked)
           => /\ modal'.isOpen
              /\ modal'.ariaHidden = "false"
              /\ owner' = Checkbox(last'.arg)
              /\ plus'[last'.arg].checked]_vars

\* C12 witness: the modal, open for one entry, was taken over by the
\* control of another entry and shows the second entry's title.
C12_Witness ==
    /\ modalMarkup
    /\ modal.isOpen
    /\ last.op = "toggle"
    /\ owner = Checkbox(last.arg)
    /\ last.prevOwner # Null
    /\ last.prevOwner # owner
    /\ modal.content.title = entries[last.arg].title
    /\ modal.content.title # entries[last.prevOwner.index].title

\* C13: toggling a "+" control to unchecked (its entry has a non-blank
\* description) closes the modal, clears the ownership and calls focus()
\* on nothing; the toggled control ends closed with the closing animation
\* (make_plus) applied, and no other control changes.
C13_UncheckClosesModal ==
    [][(/\ last'.op = "toggle"
        /\ last'.arg \in DOMAIN entries
        /\ Trim(entries[last'.arg].description) # <<>>
        /\ plus[last'.arg].checked)
        => /\ ~modal'.isOpen
           /\ modal'.ariaHidden = "true"
           /\ ~modal'.bodyLock
           /\ owner' = Null
           /\ last'.focusCall = Null
           /\ focus' \in {focus, Checkbox(last'.arg)}
           /\ ~plus'[last'.arg].checked
           /\ plus'[last'.arg].ariaExpanded = "false"
           /\ ~plus'[last'.arg].labelChecked
           /\ ~plus'[last'.arg].containerOpen
           /\ plus'[last'.arg].animation = "make_plus"
           /\ \A s \in DOMAIN plus : s # last'.arg => plus'[s] = plus[s]]_vars

\* C13 witness: the owner of the open modal was unchecked while the focus
\* was elsewhere; the modal is closed and the focus did not move.
C13_Witness ==
    /\ modalMarkup
    /\ last.op = "toggle"
    /\ last.prevOwner = Checkbox(last.arg)
    /\ owner = Null
    /\ ~modal.isOpen
    /\ plus[last.arg].animation = "make_plus"
    /\ focus # Checkbox(last.arg)
    /\ last.focusCall = Null

\* C14: pressing Escape or clicking a close affordance while the modal is
\* open closes it, resets the owner control to closed without animation,
\* clears the ownership and returns the focus to the former owner; when no
\* modal is open the same triggers change no control, no ownership and no
\* focus, and the modal stays closed.
C14_GlobalCloseTriggers ==
    [][last'.op \in {"Escape", "closeClick"}
        => IF owner # Null
           THEN /\ modal.isOpen
                /\ ~modal'.isOpen
                /\ modal'.ariaHidden = "true"
                /\ ~modal'.bodyLock
                /\ owner' = Null
                /\ ~plus'[owner.index].checked
                /\ plus'[owner.index].ariaExpanded = "false"
                /\ ~plus'[owner.index].labelChecked
                /\ ~plus'[owner.index].containerOpen
                /\ plus'[owner.index].animation = "none"
                /\ ~plus'[owner.index].animating
                /\ \A s \in DOMAIN plus :
                       s # owner.index => plus'[s] = plus[s]
                /\ focus' = owner
                /\ last'.focusCall = owner
           ELSE /\ ~modal.isOpen
                /\ modal' = modal
                /\ plus' = plus
                /\ owner' = Null
                /\ focus' = focus
                /\ last'.focusCall = Null]_vars

\* C14 witness: a click on a close affordance closed the open modal and
\* the focus is back on the former owner.
C14_Witness ==
    /\ last.op = "closeClick"
    /\ last.prevOwner # Null
    /\ owner = Null
    /\ ~modal.isOpen
    /\ focus = last.prevOwner
    /\ last.focusCall = last.prevOwner
    /\ plus[last.prevOwner.index].animation = "none"

\* C15: with N slides and active index a, ArrowLeft on the timeline makes
\* slide (a - 1 + N) mod N active and ArrowRight makes slide (a + 1) mod N
\* active, each time focusing the trigger of the new active slide; any
\* other key (Escape included) leaves the active index and the slides
\* unchanged.
C15_ArrowKeys ==
    [][/\ last'.op = "ArrowLeft"
            => /\ activeIndex' = (activeIndex - 1 + NumSlides) % NumSlides
               /\ slides'[activeIndex'].isActive
               /\ focus' = Trigger(activeIndex')
               /\ last'.focusCall = Trigger(activeIndex')
       /\ last'.op = "ArrowRight"
            => /\ activeIndex' = (activeIndex + 1) % NumSlides
               /\ slides'[activeIndex'].isActive
               /\ focus' = Trigger(activeIndex')
               /\ last'.focusCall = Trigger(activeIndex')
       /\ last'.op \in OtherKeys
            => /\ activeIndex' = activeIndex
               /\ slides' = slides
               /\ triggers' = triggers
               /\ focus' = focus
               /\ last'.focusCall = Null
       /\ last'.op = "Escape"
            => /\ activeIndex' = activeIndex
               /\ slides' = slides
               /\ triggers' = triggers]_vars

\* C15 witness: ArrowLeft pressed on the first of several slides wrapped
\* to the last one, whose trigger has the focus.
C15_Witness ==
    /\ NumSlides >= 2
    /\ last.op = "ArrowLeft"
    /\ last.arg = -1
    /\ activeIndex = NumSlides - 1
    /\ focus = Trigger(activeIndex)
    /\ last.focusCall = Trigger(activeIndex)

\* C16 (as the spec states it): a wait started with an aborted signal is
\* rejected at once and schedules no timer; a wait that is pending when
\* the signal is aborted resolves early, without an error.
C16_PendingWaitResolves ==
    [][/\ Len(waits'.list) = Len(waits.list) + 1
            => LET w == waits'.list[Len(waits'.list)]
               IN  (w.signal /\ waits.aborted)
                      => /\ w.state = "rejected"
                         /\ ~w.timer
                         /\ w.timersSet = 0
       /\ (waits'.aborted /\ ~waits.aborted)
            => \A k \in 1..Len(waits.list) :
                  (waits.list[k].signal /\ waits.list[k].state = "pending")
                      => /\ waits'.list[k].state = "resolved"
                         /\ waits'.list[k].error = ""]_vars

\* C16 (amended): a wait started with an aborted signal is rejected at
\* once with "Hero typewriter aborted" and schedules no timer; a wait that
\* is pending when the signal is aborted has its timer cleared and is
\* rejected early with the same error; a wait without signal is untouched.
C16_PendingWaitRejects ==
    [][/\ Len(waits'.list) = Len(waits.list) + 1
            => LET w == waits'.list[Len(waits'.list)]
               IN  (w.signal /\ waits.aborted)
                      => /\ w.state = "rejected"
                         /\ w.error = "Hero typewriter aborted"
                         /\ ~w.timer
                         /\ w.timersSet = 0
       /\ (waits'.aborted /\ ~waits.aborted)
            => \A k \in 1..Len(waits.list) :
                  IF waits.list[k].signal /\ waits.list[k].state = "pending"
                  THEN /\ waits'.list[k].state = "rejected"
                       /\ waits'.list[k].error = "Hero typewriter aborted"
                       /\ ~waits'.list[k].timer
                  ELSE waits'.list[k] = waits.list[k]]_vars

\* C16 witness: the signal was aborted while one wait was pending, and a
\* second wait was started on the aborted signal; both are rejected, the
\* first having set a timer and the second none.
C16_Witness ==
    /\ waits.aborted
    /\ \E j, k \in 1..Len(waits.list) :
          /\ j < k
          /\ waits.list[j].signal /\ waits.list[k].signal
          /\ waits.list[j].state = "rejected" /\ waits.list[j].timersSet = 1
          /\ waits.list[k].state = "rejected" /\ waits.list[k].timersSet = 0
          /\ ~waits.list[j].timer /\ ~waits.list[k].timer

\* C17: in single-line mode, while the session is not cancelled, the
\* runner shows for a line of length len the prefixes of length 1..len one
\* character per step, then after the hold the prefixes of length
\* len-1..0 one character per step, then after the between-lines delay
\* does the same for line (index + 1) mod n; each rendering is the prefix
\* followed by the cursor, and the loop never ends.
C17_SingleLineCycle ==
    [][\A id \in 1..Len(runs) :
          (/\ runs[id].hasController
           /\ ~runs[id].renderAsPairs
           /\ ~runs'[id].aborted
           /\ runs'[id] # runs[id])
          => LET r == runs[id]
                 q == runs'[id]
                 len == Len(r.lines[r.index + 1])
             IN  /\ q.lines = r.lines
                 /\ r.pc \in {"start", "typing", "hold", "erasing", "between"}
                 /\ r.pc = "start"
                       => q.pc = "typing" /\ q.index = 0 /\ q.count = 1
                 /\ (r.pc = "typing" /\ r.count < len)
                       => /\ q.pc = "typing" /\ q.index = r.index
                          /\ q.count = r.count + 1
                 /\ (r.pc = "typing" /\ r.count >= len)
                       => q.pc = "hold" /\ q.index = r.index
                 /\ r.pc = "hold"
                       => /\ q.pc = "erasing" /\ q.index = r.index
                          /\ q.count = len - 1
                 /\ (r.pc = "erasing" /\ r.count > 0)
                       => /\ q.pc = "erasing" /\ q.index = r.index
                          /\ q.count = r.count - 1
                 /\ (r.pc = "erasing" /\ r.count <= 0)
                       => q.pc = "between" /\ q.index = r.index
                 /\ r.pc = "between"
                       => /\ q.pc = "typing" /\ q.count = 1
                          /\ q.index = (r.index + 1) % Len(r.lines)
                 /\ q.pc \in {"typing", "erasing"}
                       => q.markup =
                            << [cls |-> "line",
                                text |-> SubSeq(q.lines[q.index + 1],
                                                1, q.count),
                                cursor |-> TRUE] >>
                 /\ q.pc \in {"hold", "between"} => q.markup = r.markup]_vars

\* C17 witness: a session over two lines has typed and erased the first
\* line and has erased the second line down to the empty prefix.
C17_Witness ==
    \E id \in 1..Len(runs) :
        /\ runs[id].hasController /\ ~runs[id].aborted
        /\ ~runs[id].renderAsPairs
        /\ Len(runs[id].lines) = 2
        /\ runs[id].index = 1
        /\ runs[id].pc = "erasing"
        /\ runs[id].count = 0
        /\ runs[id].markup[1].text = <<>>
        /\ runs[id].markup[1].cursor

\* C18: in paired mode, while the session is not cancelled, each pair
\* (question of length qn, answer of length an) goes through: question
\* typed 1..qn; a wait of the answer-start delay exactly when qn > 0 and
\* an > 0; answer typed 1..an with the full question shown; hold; answer
\* erased an-1..0 with the full question shown; question erased qn-1..0;
\* between-lines delay; next pair, index modulo the number of pairs.  An
\* empty question or answer contributes no typing and no erasing step.
C18_PairCycle ==
    [][\A id \in 1..Len(runs) :
          (/\ runs[id].hasController
           /\ runs[id].renderAsPairs
           /\ ~runs'[id].aborted
           /\ runs'[id] # runs[id])
          => LET r == runs[id]
                 q == runs'[id]
                 question == PairOf(q).question
                 answer == PairOf(q).answer
                 qn == Len(question)
                 an == Len(answer)
                 Top == IF qn > 0 THEN <<"typingQ", 1>>
                        ELSE IF an > 0 THEN <<"typingA", 1>>
                        ELSE <<"hold", 0>>
                 EraseQ == IF qn > 0 THEN <<"erasingQ", qn - 1>>
                           ELSE <<"between", 0>>
                 Expected ==
                    CASE r.pc = "start" -> Top
                      [] r.pc = "between" -> Top
                      [] r.pc = "typingQ" /\ r.count < qn
                            -> <<"typingQ", r.count + 1>>
                      [] r.pc = "typingQ" /\ r.count >= qn
                            -> IF an > 0 THEN <<"answerDelay", 0>>
                               ELSE <<"hold", 0>>
                      [] r.pc = "answerDelay" -> <<"typingA", 1>>
                      [] r.pc = "typingA" /\ r.count < an
                            -> <<"typingA", r.count + 1>>
                      [] r.pc = "typingA" /\ r.count >= an -> <<"hold", 0>>
                      [] r.pc = "hold"
                            -> IF an > 0 THEN <<"erasingA", an - 1>>
                               ELSE EraseQ
                      [] r.pc = "erasingA" /\ r.count > 0
                            -> <<"erasingA", r.count - 1>>
                      [] r.pc = "erasingA" /\ r.count <= 0 -> EraseQ
                      [] r.pc = "erasingQ" /\ r.count > 0
                            -> <<"erasingQ", r.count - 1>>
                      [] r.pc = "erasingQ" /\ r.count <= 0 -> <<"between", 0>>
                      [] OTHER -> <<"none", 0>>
             IN  /\ <<q.pc, q.count>> = Expected
                 /\ q.index = IF r.pc = "between"
                              THEN (r.index + 1)
                                      % Len(BuildTypewriterPairs(r.lines))
                              ELSE r.index
                 /\ q.pc = "answerDelay" => qn > 0 /\ an > 0
                 /\ q.pc \in {"typingQ", "erasingQ"} /\ q.count > 0
                       => /\ Len(q.markup) = 1
                          /\ q.markup[1].cls = "question"
                          /\ q.markup[1].text = SubSeq(question, 1, q.count)
                 /\ q.pc \in {"typingA", "erasingA"} /\ qn > 0
                       => /\ q.markup[1].cls = "question"
                          /\ q.markup[1].text = question
                 /\ q.pc \in {"typingA", "erasingA"} /\ qn > 0 /\ q.count > 0
                       => /\ Len(q.markup) = 2
                          /\ q.markup[2].cls = "answer"
                          /\ q.markup[2].text = SubSeq(answer, 1, q.count)
                 /\ q.pc \in {"answerDelay", "hold", "between"}
                       => q.markup = r.markup]_vars

\* C18 witness: one session, whose pair has no question, is typing the
\* answer; another is in its second pair, which has no answer, and has
\* erased the question.
C18_Witness ==
    \E i, j \in 1..Len(runs) :
        /\ runs[i].hasController /\ ~runs[i].aborted /\ runs[i].renderAsPairs
        /\ runs[i].pc = "typingA"
        /\ PairOf(runs[i]).question = <<>>
        /\ runs[j].index = 1
        /\ runs[j].hasController /\ ~runs[j].aborted /\ runs[j].renderAsPairs
        /\ PairOf(runs[j]).answer = <<>>
        /\ runs[j].pc = "erasingQ"
        /\ runs[j].count = 0

\* C19: in every rendering produced by a typing or erasing step of a
\* running session, in single-line and in paired mode and also when the
\* visible text has length 0, exactly one cursor marker is present and it
\* follows the text of the side that is being typed or erased.
C19_ExactlyOneCursor ==
    \A id \in 1..Len(runs) :
        (/\ runs[id].hasController
         /\ ~runs[id].aborted
         /\ runs[id].pc \in {"typing", "erasing", "typingQ", "erasingQ",
                             "typingA", "erasingA"})
        => /\ Cardinality({k \in DOMAIN runs[id].markup :
                              runs[id].markup[k].cursor}) = 1
           /\ \A k \in DOMAIN runs[id].markup :
                 runs[id].markup[k].cursor
                    => /\ runs[id].markup[k].cls =
                            (CASE runs[id].pc \in {"typing", "erasing"}
                                    -> "line"
                               [] runs[id].pc \in {"typingQ", "erasingQ"}
                                    -> "question"
                               [] OTHER -> "answer")
                       /\ Len(runs[id].markup[k].text) = runs[id].count

\* C20: a startHeroTypewriter call under reduced motion cancels the
\* target's previous session, shows the first line (in pairs mode the
\* first pair's question and answer) complete and without cursor, leaves
\* no controller registered for the target and schedules no timer: the
\* rendering it wrote never changes, and the target keeps it until the
\* next start or re-render.
C20_ReducedMotionStatic ==
    /\ [](\A id \in 1..Len(runs) :
            runs[id].pc = "static"
            => /\ ~runs[id].hasController
               /\ runs[id].markup =
                    IF runs[id].renderAsPairs
                    THEN LET pair == BuildTypewriterPairs(runs[id].lines)[1]
                         IN  (IF pair.question = <<>> THEN <<>>
                              ELSE << [cls |-> "question",
                                       text |-> pair.question,
                                       cursor |-> FALSE] >>)
                             \o (IF pair.answer = <<>> THEN <<>>
                                 ELSE << [cls |-> "answer",
                                          text |-> pair.answer,
                                          cursor |-> FALSE] >>)
                    ELSE << [cls |-> "line", text |-> runs[id].lines[1],
                             cursor |-> FALSE] >>
               /\ headings[runs[id].target].textElement = id
                     => /\ controllers[runs[id].target] = 0
                        /\ headings[runs[id].target].isStatic
                        /\ \A j \in 1..(id - 1) :
                              runs[j].target = runs[id].target
                                 => ~(runs[j].hasController
                                      /\ ~runs[j].aborted))
    /\ [][\A id \in 1..Len(runs) :
            runs[id].pc = "static"
            => /\ runs'[id] = runs[id]
               /\ (headings'[runs[id].target].textElement
                      # headings[runs[id].target].textElement)
                     => \/ Len(runs') = Len(runs) + 1
                        \/ headings'[runs[id].target].textElement = 0]_vars

\* C20 witness: a target whose session was typing was started again under
\* reduced motion in pairs mode: the old session is cancelled, no
\* controller is registered and the first pair is shown complete.
C20_Witness ==
    \E id \in 2..Len(runs) :
        /\ runs[id].pc = "static"
        /\ runs[id].renderAsPairs
        /\ Len(runs[id].markup) = 2
        /\ headings[runs[id].target].textElement = id
        /\ controllers[runs[id].target] = 0
        /\ runs[id - 1].target = runs[id].target
        /\ runs[id - 1].hasController
        /\ runs[id - 1].aborted
        /\ runs[id - 1].markup # <<>>

\* C21: startHeroTypewriter sets the target's aria-label to the first
\* line (single-line mode) or to the first pair's text, its question or,
\* without question, its answer (paired mode); no later step of the
\* session (typing, hold, erasing, next line or pair) changes the label.
C21_AriaLabelStable ==
    /\ [](\A t \in Targets :
            headings[t].textElement # 0
            => LET r == runs[headings[t].textElement]
               IN  headings[t].ariaLabel =
                     IF ~r.renderAsPairs THEN r.lines[1]
                     ELSE IF Trim(r.lines[1]) # <<>> THEN Trim(r.lines[1])
                     ELSE IF Len(r.lines) >= 2 /\ Trim(r.lines[2]) # <<>>
                     THEN Trim(r.lines[2])
                     ELSE headings[t].ariaLabel)
    /\ [][\A id \in 1..Len(runs) :
            (runs'[id] # runs[id] /\ ~runs'[id].aborted)
               => headings'[runs[id].target].ariaLabel
                     = headings[runs[id].target].ariaLabel]_vars

\* C21 witness: a single-line session over two lines is typing its second
\* line while the label still holds the first line.
C21_Witness ==
    \E id \in 1..Len(runs) :
        /\ runs[id].hasController /\ ~runs[id].aborted
        /\ ~runs[id].renderAsPairs
        /\ runs[id].index = 1
        /\ runs[id].pc = "typing"
        /\ headings[runs[id].target].textElement = id
        /\ headings[runs[id].target].ariaLabel = runs[id].lines[1]
        /\ runs[id].lines[2] # runs[id].lines[1]

\* C22: buildTypewriterPairs(lines) lists in order the pairs
\* (trim(lines[2k]), trim(lines[2k+1])), k = 0, 1, ..., a missing last
\* element giving an empty answer, and omits exactly the pairs whose
\* question and answer are both empty after trimming.
C22_PairsGrouped ==
    calc.fn = "buildTypewriterPairs"
    => LET lines == calc.arg
           n == (Len(lines) + 1) \div 2
           grouped == [k \in 1..n |->
                          [question |-> Trim(lines[2 * k - 1]),
                           answer |-> IF 2 * k <= Len(lines)
                                      THEN Trim(lines[2 * k])
                                      ELSE <<>>]]
       IN  calc.result =
              SelectSeq(grouped,
                        LAMBDA p : ~(p.question = <<>> /\ p.answer = <<>>))

\* C22 witness: three lines, the second blank, give two pairs, both with
\* an empty answer, the padded line trimmed.
C22_Witness ==
    /\ calc.fn = "buildTypewriterPairs"
    /\ calc.arg = << <<"Q">>, <<" ">>, <<" ", "A", " ">> >>
    /\ calc.result = << [question |-> <<"Q">>, answer |-> <<>>],
                        [question |-> <<"A">>, answer |-> <<>>] >>

\* C23: resolveHeroRotatingLines gives the built-in fallback lines when
\* the content has no non-blank configured line and no heading, and never
\* an empty list or a blank line; startHeroTypewriter called with an empty
\* list animates the fallback lines; so every session has a first line
\* to show and its first typing step renders the first character.
C23_FallbackLines ==
    /\ calc.fn = "resolveHeroRotatingLines"
          => /\ calc.result # <<>>
             /\ \A k \in 1..Len(calc.result) :
                   calc.result[k] # <<>> /\ calc.result[k][1] # " "
             /\ ((~calc.arg.isArray
                    \/ \A k \in 1..Len(calc.arg.typewriter_lines) :
                          Trim(calc.arg.typewriter_lines[k]) = <<>>)
                 /\ Trim(calc.arg.heading) = <<>>)
                   => calc.result = << <<"o", "k">>, <<"g", "o">> >>
    /\ \A id \in 1..Len(runs) :
          /\ runs[id].given = <<>>
                => runs[id].lines = << <<"o", "k">>, <<"g", "o">> >>
          /\ runs[id].given # <<>> => runs[id].lines = runs[id].given
          /\ runs[id].lines # <<>>
          /\ (runs[id].pc \in {"typing", "typingQ"} /\ runs[id].index = 0)
                => /\ runs[id].markup # <<>>
                   /\ runs[id].markup[1].text
                         = SubSeq(runs[id].lines[1], 1, runs[id].count)
                   /\ runs[id].count >= 1

\* C23 witness: a section whose content has only blank configured lines
\* and a blank heading was rendered and its session is typing the first
\* fallback line; another heading, started with an empty list, shows the
\* fallback too.
C23_Witness ==
    /\ calc.fn = "resolveHeroRotatingLines"
    /\ calc.arg.isArray
    /\ calc.arg.typewriter_lines = << <<" ">> >>
    /\ calc.arg.heading = <<" ">>
    /\ \E i, j \in 1..Len(runs) :
          /\ runs[i].target = "intro"
          /\ runs[i].pc = "typing"
          /\ runs[i].markup[1].text = <<"o", "k">>
          /\ runs[j].target = "greeting"
          /\ runs[j].given = <<>>
          /\ runs[j].pc = "typing"
          /\ runs[j].lines = FallbackLines

\* Reference: the entity at the head of s (<<>> when there is none) and
\* the character it stands for.
C24_Entities ==
    { [text |-> <<"&", "a", "m", "p", ";">>, ch |-> "&"],
      [text |-> <<"&", "l", "t", ";">>, ch |-> "<"],
      [text |-> <<"&", "g", "t", ";">>, ch |-> ">"],
      [text |-> <<"&", "q", "u", "o", "t", ";">>, ch |-> "\""],
      [text |-> <<"&", "#", "3", "9", ";">>, ch |-> "'"] }

\* Reference: s with every span tag removed and every entity replaced by
\* its character; a reserved character outside an entity gives "?".
RECURSIVE C24_PlainText(_)
C24_PlainText(s) ==
    IF s = <<>> THEN <<>>
    ELSE IF Head(s) \in {SpanOpen, SpanClose} THEN C24_PlainText(Tail(s))
    ELSE IF \E e \in C24_Entities :
               Len(s) >= Len(e.text) /\ SubSeq(s, 1, Len(e.text)) = e.text
    THEN LET e == CHOOSE e \in C24_Entities :
                      Len(s) >= Len(e.text)
                      /\ SubSeq(s, 1, Len(e.text)) = e.text
         IN  <<e.ch>> \o C24_PlainText(SubSeq(s, Len(e.text) + 1, Len(s)))
    ELSE IF Head(s) \in {"&", "<", ">", "\"", "'"} THEN <<"?">>
    ELSE <<Head(s)>> \o C24_PlainText(Tail(s))

\* C24: the output of highlightHeroLine is escaped literal text and accent
\* spans, each span wrapping one escaped match of the pattern; removing
\* the span tags and unescaping gives back the input line, and none of
\* & < > " ' of the input stands unescaped in the output.
C24_HighlightEscapes ==
    calc.fn = "highlightHeroLine"
    => LET out == calc.result
           tags == SelectSeq(out, LAMBDA x : x \in {SpanOpen, SpanClose})
           opens == {k \in 1..Len(out) : out[k] = SpanOpen}
       IN  /\ C24_PlainText(out) = calc.arg
           /\ \A k \in 1..Len(out) :
                 out[k] \notin {"<", ">", "\"", "'"}
           /\ \A k \in 1..Len(out) :
                 out[k] = "&"
                    => \E e \in C24_Entities :
                          /\ k + Len(e.text) - 1 <= Len(out)
                          /\ SubSeq(out, k, k + Len(e.text) - 1) = e.text
           /\ \A k \in 1..Len(tags) :
                 tags[k] = IF k % 2 = 1 THEN SpanOpen ELSE SpanClose
           /\ Len(tags) % 2 = 0
           /\ \A k \in opens :
                 /\ k + 3 <= Len(out)
                 /\ LowerCase(out[k + 1]) = "c"
                 /\ LowerCase(out[k + 2]) = "i"
                 /\ out[k + 3] = SpanClose

\* C24 witness: a line with a reserved character before and after a
\* keyword written in mixed case.
C24_Witness ==
    /\ calc.fn = "highlightHeroLine"
    /\ calc.arg = <<"<", "c", "I">>
    /\ calc.result = <<"&", "l", "t", ";", SpanOpen, "c", "I", SpanClose>>

\* C25: for "#" followed by 3, 6 or 8 hex digits parseColor returns the
\* integer channels of a reference decoder: with 3 digits each digit d
\* gives 17 * d, with 6 and 8 digits each channel is the value of its
\* two-digit group; alpha is 1 with 3 and 6 digits and (last group) / 255
\* with 8 digits.
C25_HexDecoded ==
    (/\ calc.fn = "parseColor"
     /\ Len(calc.arg) \in {4, 7, 9}
     /\ calc.arg[1] = "#"
     /\ \A k \in 2..Len(calc.arg) :
           calc.arg[k] \in {"0", "1", "2", "3", "4", "5", "6", "7", "8", "9",
                            "a", "b", "c", "d", "e", "f",
                            "A", "B", "C", "D", "E", "F"})
    => LET hex == Tail(calc.arg)
           val(ch) == CASE ch \in {"a", "A"} -> 10 [] ch \in {"b", "B"} -> 11
                        [] ch \in {"c", "C"} -> 12 [] ch \in {"d", "D"} -> 13
                        [] ch \in {"e", "E"} -> 14 [] ch \in {"f", "F"} -> 15
                        [] ch = "0" -> 0 [] ch = "1" -> 1 [] ch = "2" -> 2
                        [] ch = "3" -> 3 [] ch = "4" -> 4 [] ch = "5" -> 5
                        [] ch = "6" -> 6 [] ch = "7" -> 7 [] ch = "8" -> 8
                        [] OTHER -> 9
           group(k) == 16 * val(hex[2 * k - 1]) + val(hex[2 * k])
           c == calc.result
           int(x, n) == ~x.nan /\ x.den = 1 /\ x.num = n /\ n \in 0..255
       IN  /\ ~c.isNull
           /\ IF Len(hex) = 3
              THEN /\ int(c.r, 17 * val(hex[1]))
                   /\ int(c.g, 17 * val(hex[2]))
                   /\ int(c.b, 17 * val(hex[3]))
              ELSE /\ int(c.r, group(1))
                   /\ int(c.g, group(2))
                   /\ int(c.b, group(3))
           /\ IF Len(hex) = 8
              THEN ~c.a.nan /\ c.a.num = group(4) /\ c.a.den = 255
              ELSE ~c.a.nan /\ c.a.num = 1 /\ c.a.den = 1

\* C25 witness: a three-digit and upper-case colour was decoded.
C25_Witness ==
    /\ calc.fn = "parseColor"
    /\ calc.arg = <<"#", "9", "a", "F">>
    /\ calc.result.r.num = 153
    /\ calc.result.g.num = 170
    /\ calc.result.b.num = 255
    /\ calc.result.a.num = 1

\* C26: parseColor returns null for every input that is neither "#" with
\* 3, 6 or 8 hex digits nor an rgb()/rgba() form with at least three
\* numeric channels (in particular for "#" followed by 3, 6 or 8
\* characters that are not all hex digits, and for text without "#" and
\* without parenthesis), and it never returns a colour with a NaN channel.
C26_UnparseableIsNull ==
    calc.fn = "parseColor"
    => LET value == Trim(calc.arg)
           hexDigit(ch) ==
               ch \in {"0", "1", "2", "3", "4", "5", "6", "7", "8", "9",
                       "a", "b", "c", "d", "e", "f",
                       "A", "B", "C", "D", "E", "F"}
           hexForm == /\ value # <<>>
                      /\ Head(value) = "#"
                      /\ Len(value) \in {4, 7, 9}
                      /\ \A k \in 2..Len(value) : hexDigit(value[k])
           c == calc.result
       IN  /\ (value # <<>> /\ Head(value) = "#" /\ ~hexForm) => c.isNull
           /\ (value = <<>> \/ (Head(value) # "#"
                                /\ \A k \in 1..Len(value) : value[k] # "("))
                 => c.isNull
           /\ ~c.isNull => ~c.r.nan /\ ~c.g.nan /\ ~c.b.nan

\* ---------------------------------------------- contrast theming pass
\* A handler of the page outside the timeline ran last.
PageOp(op) == [op |-> op, arg |-> 0, prevOwner |-> Null, focusCall |-> Null]

\* A dataset entry or attribute that is not set, and JavaScript's ??.
Undefined == <<"undefined">>
OrElse(value, default) == IF value = Undefined THEN default ELSE value

\* getPreferredAppearance and isDarkModeEnabled of js/appearance.js.
GetPreferredAppearance ==
    IF appearance.stored = NullItem THEN "auto" ELSE appearance.stored
IsDarkModeEnabled ==
    IF GetPreferredAppearance = "auto" THEN appearance.matches
    ELSE GetPreferredAppearance = "dark"

\* estimateTileSurfaceColor: the declared accents blended over the page
\* surface and averaged; the computed background when no accent parses;
\* the page surface when that does not parse either.
EstimateTileSurfaceColor(tile, darkMode) ==
    LET pageSurface == IF darkMode THEN DARK_SURFACE_RGB
                       ELSE LIGHT_SURFACE_RGB
        defaultPrimaryAlpha == IF darkMode THEN <<"0", ".", "6", "4">>
                               ELSE <<"0", ".", "5", "6">>
        defaultSecondaryAlpha == IF darkMode THEN <<"0", ".", "4", "6">>
                                 ELSE <<"0", ".", "3", "4">>
        declared(primary, secondary, primaryAlpha, secondaryAlpha) ==
            (IF primary.isNull THEN <<>>
             ELSE <<BlendOverBackground([primary EXCEPT !.a = primaryAlpha],
                                        pageSurface)>>)
            \o (IF secondary.isNull THEN <<>>
                ELSE <<BlendOverBackground(
                           [secondary EXCEPT !.a = secondaryAlpha],
                           pageSurface)>>)
        computed(computedBackground) ==
            IF computedBackground.isNull THEN <<>>
            ELSE <<BlendOverBackground(computedBackground, pageSurface)>>
    IN  Value(<<ParseColor(OrElse(tile.contrastPrimary, <<>>)),
                ParseColor(OrElse(tile.contrastSecondary, <<>>)),
                ParseFloat(OrElse(tile.contrastPrimaryAlpha,
                                  defaultPrimaryAlpha)),
                ParseFloat(OrElse(tile.contrastSecondaryAlpha,
                                  defaultSecondaryAlpha))>>, LAMBDA parsed :
        Value(declared(parsed[1], parsed[2], parsed[3], parsed[4]),
              LAMBDA accents :
        Value(IF accents # <<>> THEN accents
              ELSE computed(ParseColor(tile.backgroundColor)),
              LAMBDA samples :
            IF samples # <<>> THEN AverageRgb(samples) ELSE pageSurface)))

\* The two custom properties the pass sets on a tile.
Tokens(text, muted) == [text |-> text, muted |-> muted]
TimelineTokens ==
    Tokens("rgba(255, 255, 255, 0.98)", "rgba(241, 248, 255, 0.86)")
LightTokens == Tokens("#f6fbff", "rgba(246, 251, 255, 0.82)")
DarkTokens == Tokens("#0f2342", "rgba(15, 35, 66, 0.74)")

\* A variant that treats a timeline tile like any other tile.
TileTokensNoTimeline(tile, darkMode) ==
    IF ~tile.hasPlus THEN Tokens(tile.text, tile.muted)
    ELSE IF darkMode THEN LightTokens
    ELSE Value(EstimateTileSurfaceColor(tile, FALSE), LAMBDA estimatedSurface :
         Value(<<ContrastRatio(estimatedSurface, DARK_TEXT_RGB),
                 ContrastRatio(estimatedSurface, LIGHT_TEXT_RGB)>>,
               LAMBDA contrast :
             IF GreaterEq(contrast[1], contrast[2]) THEN DarkTokens
             ELSE LightTokens))

\* The body of applyContrastAwareTileTextColors's forEach: the tokens a
\* tile has after the pass.
TileTokens(tile, darkMode) ==
    IF ~tile.hasPlus THEN Tokens(tile.text, tile.muted)
    ELSE IF tile.inTimeline THEN TimelineTokens
    ELSE IF darkMode THEN LightTokens
    ELSE Value(EstimateTileSurfaceColor(tile, FALSE), LAMBDA estimatedSurface :
         Value(<<ContrastRatio(estimatedSurface, DARK_TEXT_RGB),
                 ContrastRatio(estimatedSurface, LIGHT_TEXT_RGB)>>,
               LAMBDA contrast :
         Value(GreaterEq(contrast[1], contrast[2]), LAMBDA useDarkText :
             IF useDarkText THEN DarkTokens ELSE LightTokens)))

ApplyContrastAwareTileTextColors ==
    /\ tiles' = [k \in DOMAIN tiles |->
                    LET tokens == TileTokens(tiles[k], IsDarkModeEnabled)
                    IN  [tiles[k] EXCEPT !.text = tokens.text,
                                         !.muted = tokens.muted]]
    /\ last' = PageOp("applyContrastAwareTileTextColors")
    /\ UNCHANGED <<appearance, checkbox>>
    /\ UNCHANGED timelineRest
    /\ UNCHANGED typewriterVars

\* A tile as the markup renders it, before any pass set its tokens:
\* accents and alphas are the primary and the secondary one.
Tile(hasPlus, inTimeline, accents, alphas, backgroundColor) ==
    [hasPlus |-> hasPlus, inTimeline |-> inTimeline,
     contrastPrimary |-> accents[1], contrastSecondary |-> accents[2],
     contrastPrimaryAlpha |-> alphas[1], contrastSecondaryAlpha |-> alphas[2],
     backgroundColor |-> backgroundColor, text |-> "", muted |-> ""]

\* Colours and alphas the tiles of this model declare.
Accent007aff == <<"#", "0", "0", "7", "a", "f", "f">>
Transparent ==
    <<"r", "g", "b", "a", "(", "0", ",", " ", "0", ",", " ", "0", ",", " ",
      "0", ")">>
DarkBackground ==
    <<"r", "g", "b", "(", "1", "6", ",", " ", "2", "4", ",", " ", "4", "2",
      ")">>

\* The tiles a page is made of: a tile without "+" control, a timeline
\* tile, a tile of the Tile component (its alphas are 0.56 and 0.34), a
\* black accent with an alpha above 1, tiles without accents over a
\* transparent and over a dark computed background, and an accent whose
\* hex digits are letters beyond f.
TileInputs ==
    LET none == <<Undefined, Undefined>>
    IN  { Tile(FALSE, FALSE, <<Accent007aff, Undefined>>, none, Transparent),
          Tile(TRUE, TRUE, none, none, Transparent),
          Tile(TRUE, FALSE, <<Accent007aff, Accent007aff>>,
               << <<"0", ".", "5", "6">>, <<"0", ".", "3", "4">> >>,
               Transparent),
          Tile(TRUE, FALSE, << <<"#", "0", "0", "0">>, Undefined>>,
               << <<"2">>, Undefined>>, Transparent),
          Tile(TRUE, FALSE, none, none, Transparent),
          Tile(TRUE, FALSE, none, none, DarkBackground),
          Tile(TRUE, FALSE, << <<"#", "g", "g", "g">>, Undefined>>, none,
               Transparent) }

\* ------------------------------------------------------ appearance.js
\* isDarkModeEnabled() when the module and localStorage are in state a.
IsDarkModeEnabledIn(a) ==
    IF a.stored = NullItem \/ a.stored = "auto" THEN a.matches
    ELSE a.stored = "dark"

\* announceAppearance(mode): sets dataset.appearance and dispatches
\* "appearance:changed", whose listeners run before dispatchEvent returns.
AnnounceAppearance(a, mode) ==
    [a EXCEPT !.mode = mode,
              !.notified = [mode |-> mode,
                            isDarkModeEnabled |-> IsDarkModeEnabledIn(a)]]

\* applyLightAppearance and applyDarkAppearance: every class and style they
\* set is a function of the mode they announce; the navbar's class and
\* document.documentElement.dataset.appearance stand for all of them.
ApplyLightAppearance(a) ==
    AnnounceAppearance([a EXCEPT !.navbarDark = FALSE], "light")
ApplyDarkAppearance(a) ==
    AnnounceAppearance([a EXCEPT !.navbarDark = TRUE], "dark")

\* applyAutoAppearance: binds the media query's change listener once, then
\* applies what the query matches.
ApplyAutoAppearance(a) ==
    LET bound == [a EXCEPT !.isSystemListenerBound = TRUE]
    IN  IF a.matches THEN ApplyDarkAppearance(bound)
        ELSE ApplyLightAppearance(bound)

\* The ids of the three toggle pills are light-, dark- and auto-appearance.
AppearanceNames == {"light", "dark", "auto"}

\* A variant that applies the preference without storing it.
SetPreferredAppearanceUnsaved(a, preferredAppearance) ==
    LET applied == CASE preferredAppearance = "light"
                          -> ApplyLightAppearance(a)
                     [] preferredAppearance = "dark"
                          -> ApplyDarkAppearance(a)
                     [] OTHER -> ApplyAutoAppearance(a)
    IN  [applied EXCEPT
            !.activeToggle = IF preferredAppearance \in AppearanceNames
                             THEN preferredAppearance ELSE ""]

\* setPreferredAppearance: applies the preference ("auto" for any other
\* text), marks its pill and stores it. The names used here are in lower
\* case already, so toLowerCase leaves them alone.
SetPreferredAppearance(a, preferredAppearance) ==
    LET applied == CASE preferredAppearance = "light"
                          -> ApplyLightAppearance(a)
                     [] preferredAppearance = "dark"
                          -> ApplyDarkAppearance(a)
                     [] OTHER -> ApplyAutoAppearance(a)
    IN  [applied EXCEPT
            !.activeToggle = IF preferredAppearance \in AppearanceNames
                             THEN preferredAppearance ELSE "",
            !.stored = preferredAppearance]

PageStep(op) ==
    /\ last' = PageOp(op)
    /\ UNCHANGED timelineRest
    /\ UNCHANGED typewriterVars

\* refreshAppearance: binds the pills' click listeners once and re-applies
\* the stored preference.
RefreshAppearance ==
    /\ appearance' =
          SetPreferredAppearance([appearance EXCEPT !.areControlsBound = TRUE],
                                 GetPreferredAppearance)
    /\ PageStep("refreshAppearance")
    /\ UNCHANGED <<tiles, checkbox>>

\* A click on one of the pills, once initAppearanceControls bound them.
ClickOp(name) == [light |-> "click #light-appearance",
                  dark |-> "click #dark-appearance",
                  auto |-> "click #auto-appearance"][name]
ClickAppearance(name) ==
    /\ appearance.areControlsBound
    /\ appearance' = SetPreferredAppearance(appearance, name)
    /\ PageStep(ClickOp(name))
    /\ UNCHANGED <<tiles, checkbox>>

\* Mutant: the bound listener follows the system whatever the preference.
SystemSchemeChangeAlways ==
    /\ appearance' =
          LET changed == [appearance EXCEPT !.matches = ~appearance.matches]
          IN  IF appearance.isSystemListenerBound
              THEN IF changed.matches THEN ApplyDarkAppearance(changed)
                   ELSE ApplyLightAppearance(changed)
              ELSE changed
    /\ PageStep("change")
    /\ UNCHANGED <<tiles, checkbox>>

\* The system colour scheme changes; the listener applyAutoAppearance
\* bound follows it while the preference is "auto".
SystemSchemeChange ==
    /\ appearance' =
          LET changed == [appearance EXCEPT !.matches = ~appearance.matches]
          IN  IF appearance.isSystemListenerBound
                 /\ GetPreferredAppearance = "auto"
              THEN IF changed.matches THEN ApplyDarkAppearance(changed)
                   ELSE ApplyLightAppearance(changed)
              ELSE changed
    /\ PageStep("change")
    /\ UNCHANGED <<tiles, checkbox>>

\* The page is loaded again: the modules start over, the markup is
\* rendered anew and only localStorage and the system scheme are kept.
PageLoad ==
    /\ appearance' = AppearanceAtLoad(appearance.stored, appearance.matches)
    /\ tiles' = [k \in DOMAIN tiles |->
                    [tiles[k] EXCEPT !.text = "", !.muted = ""]]
    /\ checkbox' = CheckboxAtRest(checkbox.inContact)
    /\ PageStep("load")

MaxTiles == 2

InitTheme ==
    /\ entries = <<>>
    /\ modalMarkup = TRUE
    /\ pagerReady = FALSE
    /\ activeIndex = 0
    /\ slides = <<>>
    /\ triggers = <<>>
    /\ navDisabled = FALSE
    /\ plus = <<>>
    /\ owner = Null
    /\ modal = ModalClosed(EmptyContent)
    /\ focus = Body
    /\ last = PageOp("load")
    /\ runs = <<>>
    /\ controllers = [t \in Targets |-> 0]
    /\ headings = [t \in Targets |-> HeadingMarkup]
    /\ waits = [aborted |-> FALSE, list |-> <<>>]
    /\ calc = NoCall
    /\ tiles \in [1..MaxTiles -> TileInputs]
    /\ \E matches \in BOOLEAN :
          appearance = AppearanceAtLoad(NullItem, matches)
    /\ checkbox = CheckboxAtRest(FALSE)

NextTheme ==
    \/ ApplyContrastAwareTileTextColors
    \/ RefreshAppearance
    \/ \E name \in AppearanceNames : ClickAppearance(name)
    \/ SystemSchemeChange
    \/ PageLoad

SpecTheme == InitTheme /\ [][NextTheme]_vars

\* C27: contrastRatio(a, a) = 1 for every colour a, contrastRatio(a, b) =
\* contrastRatio(b, a) for all colours a and b, and hence the ratio is a
\* number that is at least 1.
C27_ContrastRatioSymmetric ==
    calc.fn = "contrastRatio"
    => LET a == calc.arg[1]
           b == calc.arg[2]
           same == ContrastRatio(a, a)
       IN  /\ ~same.nan /\ same.num = same.den
           /\ calc.result = ContrastRatio(b, a)
           /\ ~calc.result.nan
           /\ calc.result.num >= calc.result.den
           /\ (a = b => calc.result.num = calc.result.den)

\* contrastRatio was called with a darker first and a lighter second
\* colour and returned more than 1.
C27_Witness ==
    /\ calc.fn = "contrastRatio"
    /\ calc.arg[1] = DARK_TEXT_RGB
    /\ calc.arg[2] = LIGHT_SURFACE_RGB
    /\ calc.result.num > calc.result.den

\* C28: the Contrast Theming Pass leaves a tile without "+" control
\* unchanged; gives a timeline tile the fixed light-on-dark pair whatever
\* the theme; otherwise gives the fixed light pair in dark mode; otherwise
\* gives the dark-text pair if and only if the contrast ratio of the
\* estimated surface against the dark candidate is greater than or equal to
\* the ratio against the light candidate, and the light pair if not. A
\* pass right after a pass changes no tile.
C28_ThemingPass ==
    [][last'.op = "applyContrastAwareTileTextColors"
       => /\ DOMAIN tiles' = DOMAIN tiles
          /\ \A k \in DOMAIN tiles :
                LET tile == tiles[k]
                    after == <<tiles'[k].text, tiles'[k].muted>>
                    lightPair == <<"#f6fbff", "rgba(246, 251, 255, 0.82)">>
                    darkPair == <<"#0f2342", "rgba(15, 35, 66, 0.74)">>
                    surface == EstimateTileSurfaceColor(tile, FALSE)
                IN  /\ tiles'[k] = [tile EXCEPT !.text = after[1],
                                                !.muted = after[2]]
                    /\ ~tile.hasPlus => after = <<tile.text, tile.muted>>
                    /\ tile.hasPlus /\ tile.inTimeline
                          => after = <<"rgba(255, 255, 255, 0.98)",
                                       "rgba(241, 248, 255, 0.86)">>
                    /\ tile.hasPlus /\ ~tile.inTimeline /\ IsDarkModeEnabled
                          => after = lightPair
                    /\ tile.hasPlus /\ ~tile.inTimeline /\ ~IsDarkModeEnabled
                          => /\ after \in {lightPair, darkPair}
                             /\ after = darkPair
                                   <=> GreaterEq(
                                          ContrastRatio(surface, DARK_TEXT_RGB),
                                          ContrastRatio(surface,
                                                        LIGHT_TEXT_RGB))
          /\ last.op = "applyContrastAwareTileTextColors" => tiles' = tiles
    ]_vars

\* A pass in light mode ran a second time over a page with a tile that
\* got the dark-text pair and a tile that got the light pair.
C28_Witness ==
    /\ last.op = "applyContrastAwareTileTextColors"
    /\ ~IsDarkModeEnabled
    /\ \E j \in DOMAIN tiles, k \in DOMAIN tiles :
          /\ tiles[j].hasPlus /\ ~tiles[j].inTimeline
          /\ tiles[k].hasPlus /\ ~tiles[k].inTimeline
          /\ tiles[j].text = "#0f2342"
          /\ tiles[k].text = "#f6fbff"
          /\ tiles[j].contrastPrimary = Accent007aff

\* C30: after the user selects light, dark or auto, that preference is the
\* stored value; a page load keeps it and nothing but a selection replaces
\* it; refreshAppearance re-applies the stored preference, "auto" when
\* nothing is stored; and once an appearance is applied, the effective
\* appearance is the preferred one for light and dark and the system
\* colour scheme for auto.
C30_PreferencePersists ==
    /\ [](appearance.mode # ""
            => LET preferred == IF appearance.stored = NullItem THEN "auto"
                                ELSE appearance.stored
                   system == IF appearance.matches THEN "dark" ELSE "light"
               IN  /\ preferred \in {"light", "dark", "auto"}
                   /\ appearance.mode
                         = IF preferred = "auto" THEN system ELSE preferred
                   /\ appearance.navbarDark <=> appearance.mode = "dark"
                   /\ IsDarkModeEnabled <=> appearance.mode = "dark")
    /\ [][LET system == IF appearance'.matches THEN "dark" ELSE "light"
              effective(preferred) ==
                  IF preferred = "auto" THEN system ELSE preferred
          IN  /\ \A name \in {"light", "dark", "auto"} :
                    last'.op = ClickOp(name)
                    => /\ appearance'.stored = name
                       /\ appearance'.activeToggle = name
                       /\ appearance'.mode = effective(name)
              /\ last'.op = "load" => appearance'.stored = appearance.stored
              /\ last'.op = "refreshAppearance"
                    => /\ appearance'.stored
                             = IF appearance.stored = NullItem THEN "auto"
                               ELSE appearance.stored
                       /\ appearance'.activeToggle = appearance'.stored
                       /\ appearance'.mode = effective(appearance'.stored)
              /\ appearance'.stored # appearance.stored
                    => \/ \E name \in {"light", "dark", "auto"} :
                             last'.op = ClickOp(name)
                       \/ /\ last'.op = "refreshAppearance"
                          /\ appearance.stored = NullItem
         ]_vars

\* The page was loaded with the preference "dark" stored while the system
\* scheme is light, and refreshAppearance applied dark.
C30_Witness ==
    /\ last.op = "refreshAppearance"
    /\ appearance.stored = "dark"
    /\ ~appearance.matches
    /\ ~appearance.isSystemListenerBound
    /\ appearance.mode = "dark"

\* ------------------------------------------- js/animations.js: "+" tiles
\* A pending setTimeout: the callback and the milliseconds left.
Timer(fn, delay) == [fn |-> fn, left |-> delay]

\* Time is counted in steps of TimeStep milliseconds, which divides every
\* delay of the handlers (100, 650, 150 and 750).
TimeStep == 50

\* A variant that synchronises aria-expanded before looking at the guard.
PlusGoXHandlerSyncFirst(c) ==
    IF c.animating \/ ~c.complete
    THEN [c EXCEPT !.ariaExpanded = IF c.checked THEN "true" ELSE "false"]
    ELSE IF c.checked
    THEN [c EXCEPT !.animating = TRUE, !.ariaExpanded = "true",
                   !.icon = "make_x", !.titleWhite = TRUE,
                   !.timers = @ \cup {Timer("open1", 100)}]
    ELSE [c EXCEPT !.animating = TRUE, !.ariaExpanded = "false",
                   !.icon = "make_plus", !.overlay = "slide_out_up",
                   !.timers = @ \cup {Timer("close1", 650)}]

\* plusGoXHandler for a checkbox whose checked flag the browser has
\* already toggled: nothing while the icon is animating; nothing but
\* setting and removing the guard when the tile, its overlay, its overlay
\* background or its h5 is missing; else the first stage of the open or
\* of the close transition and its timer.
PlusGoXHandler(c) ==
    IF c.animating THEN c
    ELSE IF ~c.complete THEN c
    ELSE IF c.checked
    THEN [c EXCEPT !.animating = TRUE, !.ariaExpanded = "true",
                   !.icon = "make_x", !.titleWhite = TRUE,
                   !.timers = @ \cup {Timer("open1", 100)}]
    ELSE [c EXCEPT !.animating = TRUE, !.ariaExpanded = "false",
                   !.icon = "make_plus", !.overlay = "slide_out_up",
                   !.timers = @ \cup {Timer("close1", 650)}]

\* contactPlusGoXHandler: plusGoXHandler, then the send icon leaves at
\* once when the control is checked and comes back after 750 ms when not.
ContactPlusGoXHandler(c) ==
    LET handled == PlusGoXHandler(c)
    IN  IF c.checked THEN [handled EXCEPT !.sendIcon = "slide_out_diag_up"]
        ELSE [handled EXCEPT !.timers = @ \cup {Timer("send", 750)}]

\* The delegated change listener of initPlusToggleDelegation, for a
\* control outside #timeline.
DelegatedChange(c) ==
    IF c.inContact THEN ContactPlusGoXHandler(c) ELSE PlusGoXHandler(c)

\* Mutant: the last callback of the close path forgets the guard.
TimerCallbackKeepsGuard(c, fn) ==
    CASE fn = "open1" ->
           [c EXCEPT !.content = "fade_out", !.background = "fade_in",
                     !.labelChecked = TRUE,
                     !.timers = @ \cup {Timer("open2", 650)}]
      [] fn = "open2" ->
           [c EXCEPT !.overlayWhite = TRUE, !.overlayHidden = FALSE,
                     !.overlay = "slide_in_down", !.animating = FALSE]
      [] fn = "close1" ->
           [c EXCEPT !.overlayHidden = TRUE, !.overlayWhite = FALSE,
                     !.background = "fade_out", !.content = "fade_in",
                     !.titleWhite = FALSE,
                     !.timers = @ \cup {Timer("close2", 150)}]
      [] fn = "close2" ->
           [c EXCEPT !.labelChecked = FALSE]
      [] fn = "send" ->
           [c EXCEPT !.sendIcon = "slide_diag_up"]

\* The callbacks of the timers.
TimerCallback(c, fn) ==
    CASE fn = "open1" ->
           [c EXCEPT !.content = "fade_out", !.background = "fade_in",
                     !.labelChecked = TRUE,
                     !.timers = @ \cup {Timer("open2", 650)}]
      [] fn = "open2" ->
           [c EXCEPT !.overlayWhite = TRUE, !.overlayHidden = FALSE,
                     !.overlay = "slide_in_down", !.animating = FALSE]
      [] fn = "close1" ->
           [c EXCEPT !.overlayHidden = TRUE, !.overlayWhite = FALSE,
                     !.background = "fade_out", !.content = "fade_in",
                     !.titleWhite = FALSE,
                     !.timers = @ \cup {Timer("close2", 150)}]
      [] fn = "close2" ->
           [c EXCEPT !.labelChecked = FALSE, !.animating = FALSE]
      [] fn = "send" ->
           [c EXCEPT !.sendIcon = "slide_diag_up"]

\* At most MaxTimers timers are pending at a time: a change event that
\* could add one waits until one of them fired.
MaxTimers == 3

\* A "change" event dispatched at the control: the listener of
\* initPlusToggleDelegation is bound to document without capture, so it
\* runs in the bubbling phase only.
DispatchEvent(c, bubbles) ==
    IF bubbles THEN DelegatedChange(c) ELSE c

\* The user toggles the "+" control: the browser flips checked and
\* dispatches change, which bubbles to the delegated listener.
ChangeEvent ==
    /\ Cardinality(checkbox.timers) < MaxTimers
    /\ checkbox' = DispatchEvent([checkbox EXCEPT !.checked = ~@], TRUE)
    /\ PageStep("change")
    /\ UNCHANGED <<tiles, appearance>>

\* A timer that is due fires.
PlusTimerFires ==
    \E timer \in checkbox.timers :
       /\ timer.left = 0
       /\ checkbox' = TimerCallback(
                         [checkbox EXCEPT !.timers = @ \ {timer}], timer.fn)
       /\ PageStep(timer.fn)
       /\ UNCHANGED <<tiles, appearance>>

\* TimeStep milliseconds pass while timers are pending and none is due.
Elapse ==
    /\ checkbox.timers # {}
    /\ \A timer \in checkbox.timers : timer.left > 0
    /\ checkbox' = [checkbox EXCEPT
                       !.timers = {Timer(timer.fn, timer.left - TimeStep) :
                                     timer \in checkbox.timers}]
    /\ PageStep("elapse")
    /\ UNCHANGED <<tiles, appearance>>

\* The text requestResume writes into the message field.
ResumeMessage == "Hello, I'd like to take a look at your resume."

\* requestResume() for the contact section's control, with or without a
\* #message field: new Event("change") is created without bubbles.
RequestResume(hasMessage) ==
    /\ checkbox.inContact
    /\ checkbox' =
          IF ~hasMessage THEN checkbox
          ELSE IF checkbox.checked
          THEN [checkbox EXCEPT !.message = ResumeMessage]
          ELSE DispatchEvent([checkbox EXCEPT !.message = ResumeMessage,
                                              !.checked = TRUE],
                             FALSE)
    /\ PageStep("requestResume")
    /\ UNCHANGED <<tiles, appearance>>

\* A "+" control outside #timeline, in the contact section or not, at
\* rest; complete tells whether its tile, overlay, overlay background and
\* h5 all exist (the Tile component renders them all; hand-written markup
\* may lack one).
InitPlus ==
    /\ entries = <<>>
    /\ modalMarkup = TRUE
    /\ pagerReady = FALSE
    /\ activeIndex = 0
    /\ slides = <<>>
    /\ triggers = <<>>
    /\ navDisabled = FALSE
    /\ plus = <<>>
    /\ owner = Null
    /\ modal = ModalClosed(EmptyContent)
    /\ focus = Body
    /\ last = PageOp("load")
    /\ runs = <<>>
    /\ controllers = [t \in Targets |-> 0]
    /\ headings = [t \in Targets |-> HeadingMarkup]
    /\ waits = [aborted |-> FALSE, list |-> <<>>]
    /\ calc = NoCall
    /\ tiles = <<>>
    /\ appearance = AppearanceAtLoad(NullItem, FALSE)
    /\ \E inContact \in BOOLEAN, complete \in BOOLEAN :
          checkbox = [CheckboxAtRest(inContact) EXCEPT !.complete = complete]

NextPlus ==
    \/ ChangeEvent
    \/ PlusTimerFires
    \/ Elapse
    \/ \E hasMessage \in BOOLEAN : RequestResume(hasMessage)

SpecPlus == InitPlus /\ [][NextPlus]_vars

\* The control is toggled by the user only.
NextUserToggle ==
    \/ ChangeEvent
    \/ PlusTimerFires
    \/ Elapse

\* Time passes and a timer that is due fires.
FairPlus ==
    /\ InitPlus
    /\ [][NextUserToggle]_vars
    /\ WF_vars(PlusTimerFires)
    /\ WF_vars(Elapse)

\* C29: once every change event on a "+" control of a tile has been
\* handled and all the timers they started have fired, aria-expanded is
\* "true" if and only if the control is checked, change events that
\* arrived while the icon was animating included.
C29_AriaMirrorsChecked ==
    checkbox.timers = {}
    => (checkbox.ariaExpanded = "true" <=> checkbox.checked)


\* Run id is over: its runner returned or rejected, and no timeout and no
\* abort listener of the run is pending.
SessionEnded(id) ==
    /\ id \in 1..Len(runs)
    /\ runs[id].pc = "done"
    /\ ~runs[id].timer
    /\ ~runs[id].listener

\* C32: once the cancellation token of a session is signaled, in whatever
\* wait the session is suspended, the session writes nothing more into its
\* text element, no abort listener of it stays registered, the only timer
\* that may still be pending is its start timer, and the session eventually
\* ends with no timer and no listener left.
C32_CancelledSessionEnds ==
    /\ [][\A id \in 1..Len(runs) :
             runs[id].aborted => runs'[id].markup = runs[id].markup]_vars
    /\ [](\A id \in 1..Len(runs) :
             runs[id].aborted
             => /\ ~runs[id].listener
                /\ runs[id].timer => runs[id].pc = "start")
    /\ \A id \in 1..MaxStarts :
          (id \in 1..Len(runs) /\ runs[id].aborted) ~> SessionEnded(id)

\* C32 witness: a session that had typed was cancelled inside a wait, and a
\* session cancelled during its start delay saw that timer fire; both are
\* over and hold neither timer nor listener.
C32_Witness ==
    \E id \in 1..Len(runs), other \in 1..Len(runs) :
        /\ runs[id].aborted /\ SessionEnded(id)
        /\ runs[id].markup # <<>>
        /\ runs[id].error.message = AbortedMessage
        /\ runs[other].aborted /\ SessionEnded(other)
        /\ runs[other].markup = <<>>
        /\ runs[other].error = NoError


\* The rejection of a runner whose pending wait was cancelled.
Cancellation == [isError |-> TRUE, message |-> AbortedMessage]

\* C31: a session whose runner was rejected by the cancellation of its
\* token (an Error carrying the marker "Hero typewriter aborted") has logged
\* nothing; a session whose runner failed with anything else has logged
\* exactly once; a session that did not fail has logged nothing; and no
\* rejection is ever left unhandled.
C31_CancellationSwallowed ==
    \A id \in 1..Len(runs) :
        /\ ~runs[id].propagated
        /\ runs[id].error = Cancellation => runs[id].logged = 0
        /\ runs[id].error \notin {NoError, Cancellation}
           => runs[id].logged = 1
        /\ runs[id].error = NoError => runs[id].logged = 0
        /\ runs[id].error # NoError => runs[id].pc = "done"

\* C31 witness: one session failed inside its loop and logged once, and a
\* later session that had typed was cancelled and logged nothing.
C31_Witness ==
    \E id \in 1..Len(runs), later \in 1..Len(runs) :
        /\ id < later
        /\ runs[id].error \in Failures
        /\ runs[id].logged = 1
        /\ runs[later].aborted
        /\ runs[later].error = Cancellation
        /\ runs[later].markup # <<>>
        /\ runs[later].logged = 0


\* C35: a session whose token is signaled while it is still in its start
\* delay (superseded by a new startHeroTypewriter for its target, or
\* cancelled by a re-render) never enters its loop and never writes into
\* its text element, whichever start timer fires first: its start timer
\* can only end it.
C35_CancelledBeforeStartNeverRuns ==
    /\ [][\A id \in 1..Len(runs) :
             (runs[id].aborted /\ runs[id].pc = "start")
             => /\ runs'[id].pc \in {"start", "done"}
                /\ runs'[id].markup = <<>>
                /\ runs'[id].error = NoError]_vars
    /\ [](\A id \in 1..Len(runs) :
             (runs[id].aborted /\ runs[id].error = NoError)
             => /\ runs[id].pc \in {"start", "done"}
                /\ runs[id].markup = <<>>)

\* C35 witness: a session was superseded during its start delay, the new
\* session's start timer fired first and it has typed, and the old start
\* timer is still pending.
C35_Witness ==
    \E id \in 1..Len(runs), later \in 1..Len(runs) :
        /\ id < later
        /\ runs[id].target = runs[later].target
        /\ runs[id].aborted
        /\ runs[id].pc = "start"
        /\ runs[id].timer
        /\ runs[later].pc \notin {"start", "done", "static"}
        /\ runs[later].markup # <<>>


\* The timers of the transition plusGoXHandler started.
TransitionTimers == {"open1", "open2", "close1", "close2"}

\* C34: a change event that plusGoXHandler accepts sets the animating guard
\* together with the 100 ms (open) or 650 ms (close) timer; the guard is
\* removed by the callback of the second timer of the path (650 ms after
\* the first on the open path, 150 ms on the close path) and by nothing
\* else; on an early exit the guard is not left set; while the guard is
\* set a timer of its transition is pending, and the guard is eventually
\* cleared.
C34_GuardEventuallyCleared ==
    /\ [][/\ (~checkbox.animating /\ checkbox'.animating)
             => /\ last'.op = "change"
                /\ checkbox.complete
                /\ IF checkbox'.checked
                   THEN Timer("open1", 100) \in checkbox'.timers
                   ELSE Timer("close1", 650) \in checkbox'.timers
          /\ (checkbox.animating /\ ~checkbox'.animating)
             => last'.op \in {"open2", "close2"}
          /\ last'.op = "open1" => Timer("open2", 650) \in checkbox'.timers
          /\ last'.op = "close1" => Timer("close2", 150) \in checkbox'.timers
          /\ last'.op \in {"open2", "close2"} => ~checkbox'.animating]_vars
    /\ [](/\ ~checkbox.complete => ~checkbox.animating
          /\ checkbox.animating
             => \E timer \in checkbox.timers : timer.fn \in TransitionTimers)
    /\ (checkbox.animating ~> ~checkbox.animating)

\* C34 witness: a close transition has run to its end: the callback of the
\* 150 ms timer removed the guard of a control that had been opened.
C34_Witness ==
    /\ last.op = "close2"
    /\ ~checkbox.animating
    /\ ~checkbox.checked
    /\ ~checkbox.labelChecked
    /\ checkbox.overlay = "slide_out_up"


\* C33: a change event on the "+" control of a generic tile whose icon
\* carries the animating guard leaves everything but the checked flag the
\* browser toggled as it was: no timer is added, and no class, animation
\* or aria-expanded of the tile, its overlay or its icon changes.
C33_GuardDropsChange ==
    [][(last'.op = "change" /\ checkbox.animating /\ ~checkbox.inContact)
       => checkbox' = [checkbox EXCEPT !.checked = ~@]]_vars

\* C33 witness: a generic tile was being opened when a further change event
\* arrived; the opening timer is still pending and the guard still set.
C33_Witness ==
    /\ last.op = "change"
    /\ ~checkbox.inContact
    /\ checkbox.animating
    /\ ~checkbox.checked
    /\ checkbox.ariaExpanded = "true"
    /\ checkbox.icon = "make_x"
    /\ \E timer \in checkbox.timers : timer.fn = "open2"


\* C36: whenever the Detail Modal is open, its owner control lies inside
\* the active slide.
C36_OwnerInActiveSlide ==
    modal.isOpen => (owner # Null /\ owner.index = activeIndex)

\* C37: a setActiveSlide whose normalized index is the slide of the modal's
\* owner control leaves the modal (open, with its content), the ownership
\* and every control of that slide as they were, and resets the controls
\* of the other slides only.
C37_SameSlideKeepsModal ==
    [][(/\ last'.op \in SwitchOps
        /\ owner # Null
        /\ owner.index = activeIndex')
       => /\ modal.isOpen /\ modal' = modal
          /\ owner' = owner
          /\ plus'[owner.index] = plus[owner.index]
          /\ plus'[owner.index].checked
          /\ plus'[owner.index].ariaExpanded = "true"
          /\ \A s \in DOMAIN plus : s # activeIndex' => ~plus'[s].checked]_vars

\* C37 witness: with a single slide whose modal is open, ArrowRight selected
\* the same slide again and the modal is still open for the same owner.
C37_Witness ==
    /\ last.op = "ArrowRight"
    /\ NumSlides = 1
    /\ last.prevOwner # Null
    /\ owner = last.prevOwner
    /\ owner.index = activeIndex
    /\ modal.isOpen
    /\ plus[owner.index].checked


\* C38: once refreshAppearance or a selection has applied an appearance,
\* after every selection and every change of the system colour scheme
\* document.documentElement.dataset.appearance is "dark" if and only if
\* isDarkModeEnabled() is true; and a change of the system colour scheme
\* leaves the applied appearance alone unless the preference is auto.
C38_AnnouncedMatchesDarkMode ==
    /\ [](appearance.mode # ""
            => /\ appearance.mode \in {"light", "dark"}
               /\ appearance.mode = "dark" <=> IsDarkModeEnabled)
    /\ [][(appearance'.matches # appearance.matches
           /\ GetPreferredAppearance # "auto")
          => /\ appearance'.mode = appearance.mode
             /\ appearance'.navbarDark = appearance.navbarDark
             /\ appearance'.notified = appearance.notified]_vars

\* C38 witness: the preference went from auto to dark, then the system
\* scheme changed to light; the bound listener left dark applied.
C38_Witness ==
    /\ last.op = "change"
    /\ appearance.isSystemListenerBound
    /\ appearance.stored = "dark"
    /\ ~appearance.matches
    /\ appearance.mode = "dark"

\* C39: when the notification of a preference selection is dispatched,
\* isDarkModeEnabled() returns true to its listeners if and only if the
\* announced mode is dark.
C39_NotificationInEffect ==
    \A name \in AppearanceNames :
        last.op = ClickOp(name)
        => (appearance.notified.isDarkModeEnabled
            <=> appearance.notified.mode = "dark")


\* C40: requestResume for a contact control at rest (with its message
\* field present): when the control is unchecked it ends checked with
\* aria-expanded = "true", the opening transition started (guard set, icon
\* turning to x, 100 ms timer pending) and the send icon leaving; when the
\* control is already checked nothing but the message changes.
C40_RequestResumeOpens ==
    [][(/\ last'.op = "requestResume"
        /\ checkbox'.message = ResumeMessage
        /\ ~checkbox.animating)
       => IF ~checkbox.checked
          THEN /\ checkbox'.checked
               /\ checkbox'.ariaExpanded = "true"
               /\ checkbox'.animating
               /\ checkbox'.icon = "make_x"
               /\ Timer("open1", 100) \in checkbox'.timers
               /\ checkbox'.sendIcon = "slide_out_diag_up"
          ELSE checkbox' = [checkbox EXCEPT !.message = ResumeMessage]]_vars

====
